---- MODULE Spec2Model ----
(***************************************************************************)
(* FL Parcel Address Lookup: the n8n workflow that resolves a Lis Pendens  *)
(* filing to a property address (exact owner-name query, fuzzy LIKE retry, *)
(* legal-description scoring, contact preparation).  One filing is         *)
(* followed through the workflow, node by node.                            *)
(*                                                                         *)
(* A JavaScript string is a sequence of one-character strings.             *)
(***************************************************************************)
EXTENDS Naturals, Integers, Sequences, FiniteSets, TLC

\* ------------------------------------------------------------------------
\* Characters and the JavaScript string functions the code nodes use
\* ------------------------------------------------------------------------

LowerCase == <<"a","b","c","d","e","f","g","h","i","j","k","l","m","n","o","p","q","r","s","t","u","v","w","x","y","z">>
UpperCase == <<"A","B","C","D","E","F","G","H","I","J","K","L","M","N","O","P","Q","R","S","T","U","V","W","X","Y","Z">>
Digits == {"0","1","2","3","4","5","6","7","8","9"}

\* the characters \s matches, among those the inputs use
WhiteSpace == {" ", "\n", "\t"}

\* the value JavaScript calls undefined (or null), where a string is expected
UNDEFINED == <<"undefined">>

\* String.prototype.toUpperCase, one character
UpperChar(c) ==
  IF \E i \in 1..Len(LowerCase) : LowerCase[i] = c
  THEN UpperCase[CHOOSE i \in 1..Len(LowerCase) : LowerCase[i] = c]
  ELSE c

\* String.prototype.toLowerCase, one character
LowerChar(c) ==
  IF \E i \in 1..Len(UpperCase) : UpperCase[i] = c
  THEN LowerCase[CHOOSE i \in 1..Len(UpperCase) : UpperCase[i] = c]
  ELSE c

\* the one element of a singleton set: Only({e(x) : x \in {v}}) is e(v), with
\* v evaluated once however often e uses it
Only(S) == CHOOSE v \in S : TRUE

toUpperCase(str) == Only({[i \in 1..Len(s) |-> UpperChar(s[i])] : s \in {str}})

toLowerCase(str) == Only({[i \in 1..Len(s) |-> LowerChar(s[i])] : s \in {str}})

\* the first index >= i of s that holds no white space (Len(s)+1 if none)
SkipSpace(s, from) ==
  CHOOSE j \in from..(Len(s) + 1) : \E i \in {from} :
    /\ j = Len(s) + 1 \/ s[j] \notin WhiteSpace
    /\ \A k \in i..(j - 1) : s[k] \in WhiteSpace

\* the first index >= i of s that holds white space (Len(s)+1 if none)
SkipNonSpace(s, from) ==
  CHOOSE j \in from..(Len(s) + 1) : \E i \in {from} :
    /\ j = Len(s) + 1 \/ s[j] \in WhiteSpace
    /\ \A k \in i..(j - 1) : s[k] \notin WhiteSpace

\* the last index <= i of s that holds no white space (0 if none)
BackSpace(s, from) ==
  CHOOSE j \in 0..from : \E i \in {from} :
    /\ j = 0 \/ s[j] \notin WhiteSpace
    /\ \A k \in (j + 1)..i : s[k] \in WhiteSpace

\* s from index i to its end
From(s, from) == Only({IF i > Len(s) THEN <<>> ELSE SubSeq(s, i, Len(s)) : i \in {from}})

\* String.prototype.trim
trim(str) == Only({SubSeq(s, SkipSpace(s, 1), BackSpace(s, Len(s))) : s \in {str}})

\* s.split(/[delims]+/) without the empty strings: every caller filters them
\* out (filter(Boolean), or a minimum length). A word starts after a
\* separator and ends before the next one.
wordStarts(s, delims) ==
  {i \in 1..Len(s) : s[i] \notin delims /\ (i = 1 \/ s[i - 1] \in delims)}

wordEnd(s, delims, i) ==
  CHOOSE j \in i..Len(s) :
    /\ j = Len(s) \/ s[j + 1] \in delims
    /\ \A k \in i..j : s[k] \notin delims

\* the n-th word of s, for the set starts of the indices where its words start
word(s, delims, starts, n) ==
  Only({SubSeq(s, i, wordEnd(s, delims, i)) :
          i \in {k \in starts : Cardinality({j \in starts : j < k}) = n - 1}})

split(str, delims) ==
  Only({Only({[n \in 1..Cardinality(starts) |-> word(s, delims, starts, n)] :
                starts \in {wordStarts(s, delims)}}) :
        s \in {SubSeq(str, 1, Len(str))}})

\* /^\d+$/.test(w)
IsNumber(w) == Len(w) >= 1 /\ \A i \in 1..Len(w) : w[i] \in Digits

\* String.prototype.includes
includes(str, substr) ==
  \E s \in {str}, sub \in {substr} : \E i \in 1..(Len(s) + 1) :
    /\ i + Len(sub) - 1 <= Len(s)
    /\ \A k \in 1..Len(sub) : s[i + k - 1] = sub[k]

\* s starts, in any letter case, with the upper-case literal p
StartsWithNoCase(str, p) ==
  \E s \in {str} :
  /\ Len(s) >= Len(p)
  /\ \A k \in 1..Len(p) : UpperChar(s[k]) = p[k]

\* the elements of a sequence
Range(seq) == UNION {{s[i] : i \in 1..Len(s)} : s \in {seq}}

\* ------------------------------------------------------------------------
\* Constant tables of the code nodes
\* ------------------------------------------------------------------------

STOP_WORDS == {
  <<"P","H","A","S","E">>,
  <<"U","N","I","T">>,
  <<"S","E","C","T","I","O","N">>,
  <<"A","D","D","I","T","I","O","N">>,
  <<"R","E","P","L","A","T">>,
  <<"E","S","T","A","T","E","S">>,
  <<"V","I","L","L","A","G","E">>,
  <<"L","A","K","E","S">>,
  <<"P","A","R","K">>,
  <<"W","O","O","D","S">>,
  <<"G","A","R","D","E","N","S">>,
  <<"M","A","N","O","R">>,
  <<"T","E","R","R","A","C","E">>,
  <<"H","E","I","G","H","T","S">>,
  <<"H","I","L","L","S">>,
  <<"A","C","R","E","S">>,
  <<"C","O","N","D","O">>,
  <<"C","O","N","D","O","M","I","N","I","U","M">>,
  <<"T","O","W","N","H","O","M","E","S">>,
  <<"V","I","L","L","A","S">>,
  <<"N","O","R","T","H">>,
  <<"S","O","U","T","H">>,
  <<"E","A","S","T">>,
  <<"W","E","S","T">>,
  <<"F","I","R","S","T">>,
  <<"S","E","C","O","N","D">>,
  <<"T","W","O">>,
  <<"T","H","R","E","E">>,
  <<"F","O","U","R">>,
  <<"F","I","V","E">>,
  <<"O","N","E">>
}

PREFIXES_TO_STRIP == {
  <<"D","E">>,
  <<"D","E","L">>,
  <<"D","E","L","A">>,
  <<"D","I">>,
  <<"V","A","N">>,
  <<"V","O","N">>,
  <<"L","A">>,
  <<"L","E">>,
  <<"M","C">>,
  <<"S","T">>
}

\* COUNTY_NUMBERS['orange']
CO_NO_ORANGE == 58

COUNTY_NAME_ORANGE == <<"o","r","a","n","g","e">>

\* separators of a parcel's S_LEGAL: /[\s\-\/,.()+]+/
LegalDelims == WhiteSpace \cup {"-", "/", ",", ".", "(", ")", "+"}

\* separators of a parcel's OWN_NAME: /[\s,]+/
OwnerDelims == WhiteSpace \cup {","}

\* a keyword has at least this many characters
MinKeywordLen == 4

\* a name part has at least this many characters
MinNamePartLen == 2

\* a name part of the LIKE query's OR group has at least this many characters
MinOtherPartLen == 3

\* ------------------------------------------------------------------------
\* "Prep Query": names, subdivision name, county number
\* ------------------------------------------------------------------------

\* (item.grantee_name || '').split('\n').map(n => n.trim()).filter(Boolean)
allGranteesOf(grantee_name) ==
  LET segs == split(IF grantee_name = UNDEFINED THEN <<>> ELSE grantee_name, {"\n"})
      trimmed == [i \in 1..Len(segs) |-> trim(segs[i])]
  IN SelectSeq(trimmed, LAMBDA e : e # <<>>)

\* allGrantees[0] || ''
primaryGranteeOf(allGrantees) ==
  IF Len(allGrantees) >= 1 THEN allGrantees[1] ELSE <<>>

\* .replace(/^Lot:\s*\S+\s*/i, '')
RemoveLot(str) ==
  Only({IF StartsWithNoCase(s, <<"L","O","T",":">>) /\ SkipSpace(s, 5) <= Len(s)
        THEN From(s, SkipSpace(s, SkipNonSpace(s, SkipSpace(s, 5))))
        ELSE s : s \in {str}})

\* .replace(/^Block:\s*\S+\s*/i, '')
RemoveBlock(str) ==
  Only({IF StartsWithNoCase(s, <<"B","L","O","C","K",":">>) /\ SkipSpace(s, 7) <= Len(s)
        THEN From(s, SkipSpace(s, SkipNonSpace(s, SkipSpace(s, 7))))
        ELSE s : s \in {str}})

\* .replace(/^TS:\s*/i, '')
RemoveTS(str) ==
  Only({IF StartsWithNoCase(s, <<"T","S",":">>) THEN From(s, SkipSpace(s, 4)) ELSE s : s \in {str}})

\* .replace(/^REPLAT OF\s*/i, '')
RemoveReplatOf(str) ==
  Only({IF StartsWithNoCase(s, <<"R","E","P","L","A","T"," ","O","F">>) THEN From(s, SkipSpace(s, 10)) ELSE s :
        s \in {str}})

\* subdivisionNameOf with the four replacements applied twice: a marker that
\* comes to the start after a removal is removed as well
subdivisionNameOf_Repeated(legal_description) ==
  trim(RemoveReplatOf(RemoveTS(RemoveBlock(RemoveLot(
         RemoveReplatOf(RemoveTS(RemoveBlock(RemoveLot(
    IF legal_description = UNDEFINED THEN <<>> ELSE legal_description)))))))))

\* legalDesc.replace(Lot).replace(Block).replace(TS).replace(REPLAT OF).trim()
subdivisionNameOf(legal_description) ==
  trim(RemoveReplatOf(RemoveTS(RemoveBlock(RemoveLot(
    IF legal_description = UNDEFINED THEN <<>> ELSE legal_description)))))

\* (item.county || 'orange').toLowerCase()
countyNameOf(county) ==
  toLowerCase(IF county = UNDEFINED \/ county = <<>> THEN COUNTY_NAME_ORANGE ELSE county)

\* COUNTY_NUMBERS[countyName]: 0 stands for undefined
countyNumberOf(countyName) ==
  IF countyName = COUNTY_NAME_ORANGE THEN CO_NO_ORANGE ELSE 0

\* UnknownCounty with the check left out
UnknownCounty_Unchecked(countyNumber) == FALSE

\* if (!countyNumber): the node returns the filing with an error and no query
UnknownCounty(countyNumber) == countyNumber = 0

\* ------------------------------------------------------------------------
\* "Match Legal Description" / "Match Legal LIKE": keywords and scoring
\* ------------------------------------------------------------------------

\* w.length >= 4 && !/^\d+$/.test(w)
IsKeyword(w) == Len(w) >= MinKeywordLen /\ ~IsNumber(w)

\* subdivisionName.toUpperCase().split(/\s+/).filter(...)
allKeywordsOf(subdivisionName) ==
  LET ws == split(toUpperCase(subdivisionName), WhiteSpace)
  IN SelectSeq(ws, LAMBDA e : IsKeyword(e))

\* allKeywords.filter(w => !STOP_WORDS.has(w))
uniqueKeywordsOf(allKeywords) ==
  SelectSeq(allKeywords, LAMBDA e : e \notin STOP_WORDS)

\* allKeywords.filter(w => STOP_WORDS.has(w))
commonKeywordsOf(allKeywords) ==
  SelectSeq(allKeywords, LAMBDA e : e \in STOP_WORDS)

\* (S_LEGAL || '').toUpperCase().split(/[\s\-\/,.()+]+/).filter(...)
sLegalWordsOf(S_LEGAL) ==
  LET ws == split(toUpperCase(S_LEGAL), LegalDelims)
  IN SelectSeq(ws, LAMBDA e : IsKeyword(e))

\* for (const keyword of keywords) if (sLegalWords.some(w => w === keyword)) score++
keywordScore(keywords, sLegalWords) ==
  Only({Cardinality({i \in 1..Len(ks) : \E j \in 1..Len(ws) : ws[j] = ks[i]}) :
        ks \in {keywords}, ws \in {sLegalWords}})

\* IsBetter with >= in the tie-break: among equal pairs the last candidate wins
IsBetter_LastWins(totalScore, uniqueScore, bestScore, bestUniqueScore) ==
  \/ totalScore > bestScore
  \/ (totalScore = bestScore /\ uniqueScore >= bestUniqueScore)

\* totalScore > bestScore || (totalScore === bestScore && uniqueScore > bestUniqueScore)
IsBetter(totalScore, uniqueScore, bestScore, bestUniqueScore) ==
  \/ totalScore > bestScore
  \/ (totalScore = bestScore /\ uniqueScore > bestUniqueScore)

\* let bestMatch = null; let bestScore = 0; let bestUniqueScore = 0;
NoBest == [bestMatch |-> 0, bestScore |-> 0, bestUniqueScore |-> 0]

\* scoresOf without the keywords: every parcel scores as if two of the
\* subdivision's keywords, one of them distinctive, were in its legal text
scoresOf_WithoutKeywords(S_LEGAL, uniqueKeywords, commonKeywords) ==
  [uniqueScore |-> 1, totalScore |-> 2]

\* the scoring loop from feature i on; best = [bestMatch, bestScore,
\* bestUniqueScore], bestMatch the index of the feature (0 is null)
\* the body of the scoring loop for one feature: uniqueScore, commonScore and
\* totalScore = uniqueScore + commonScore
scoresOf(S_LEGAL, uniqueKeywords, commonKeywords) ==
  Only({[uniqueScore |-> keywordScore(uniqueKeywords, sLegalWords),
         totalScore  |-> keywordScore(uniqueKeywords, sLegalWords)
                           + keywordScore(commonKeywords, sLegalWords)] :
        sLegalWords \in {sLegalWordsOf(S_LEGAL)}})

\* the scoring loop over the first n features; the result is [bestMatch,
\* bestScore, bestUniqueScore], bestMatch the index of the feature (0 is null)
RECURSIVE scoreLoop(_, _, _, _)
scoreLoop(features, uniqueKeywords, commonKeywords, n) ==
  IF n = 0 THEN NoBest
  ELSE Only({IF IsBetter(s.totalScore, s.uniqueScore, best.bestScore, best.bestUniqueScore)
             THEN [bestMatch |-> n, bestScore |-> s.totalScore, bestUniqueScore |-> s.uniqueScore]
             ELSE best :
             best \in {scoreLoop(features, uniqueKeywords, commonKeywords, n - 1)},
             s \in {scoresOf(features[n].S_LEGAL, uniqueKeywords, commonKeywords)}})

\* for (const feature of features) { ... } from the initial best
bestOf(features, subdivisionName) ==
  Only({scoreLoop(features, uniqueKeywordsOf(allKeywords), commonKeywordsOf(allKeywords), Len(features)) :
        allKeywords \in {allKeywordsOf(subdivisionName)}})

\* minRequired without the floor of 2: Math.ceil(totalKeywords * 0.4)
minRequiredOf_WithoutFloor(totalKeywords) == (2 * totalKeywords + 4) \div 5

\* Math.max(2, Math.ceil(totalKeywords * 0.4))
minRequiredOf(totalKeywords) ==
  LET ceil == (2 * totalKeywords + 4) \div 5
  IN IF ceil > 2 THEN ceil ELSE 2

\* isGoodMatch without the thresholds: any best match is accepted
isGoodMatch_AnyScore(best, totalKeywords) == best.bestMatch # 0

\* bestMatch && bestUniqueScore >= 1 && bestScore >= Math.min(minRequired, 2)
isGoodMatch(best, totalKeywords) ==
  /\ best.bestMatch # 0
  /\ best.bestUniqueScore >= 1
  /\ best.bestScore >= (IF minRequiredOf(totalKeywords) < 2
                        THEN minRequiredOf(totalKeywords) ELSE 2)

\* ------------------------------------------------------------------------
\* "Match Legal LIKE": owner name validation
\* ------------------------------------------------------------------------

\* s.split(delims).filter(w => w.length >= 2)
namePartsOf(s, delims) ==
  LET ws == split(toUpperCase(s), delims)
  IN SelectSeq(ws, LAMBDA e : Len(e) >= MinNamePartLen)

\* function ownerNameMatches(ownName)
ownerNameMatches(ownName, primaryGrantee, retryingSurname) ==
  \E granteeParts \in {namePartsOf(primaryGrantee, WhiteSpace)},
     ownerParts   \in {namePartsOf(ownName, OwnerDelims)},
     surname      \in {IF retryingSurname = UNDEFINED THEN <<>> ELSE toUpperCase(retryingSurname)} :
    \/ \E p \in Range(granteeParts) : p \in Range(ownerParts)
    \/ (surname # <<>> /\ surname \in Range(ownerParts))

\* validFeaturesOf without the filter: every feature is scored
validFeaturesOf_Unfiltered(features, primaryGrantee, retryingSurname) == features

\* features.filter(f => ownerNameMatches(f.attributes.OWN_NAME))
validFeaturesOf(features, primaryGrantee, retryingSurname) ==
  SelectSeq(features, LAMBDA e : ownerNameMatches(e.OWN_NAME, primaryGrantee, retryingSurname))

\* ------------------------------------------------------------------------
\* "Prep LIKE Retry": surname and the LIKE query
\* ------------------------------------------------------------------------

\* $('Detect Surname').item.json.text.trim().toUpperCase()
detectedSurnameOf(text) == toUpperCase(trim(text))

\* primaryGrantee.split(/\s+/).filter(Boolean)
namePartsOfGrantee(primaryGrantee) == split(primaryGrantee, WhiteSpace)

\* surnameOf as "Prep LIKE Retry" computed it before "Detect Surname" was
\* added: the second word after a leading particle, otherwise the first word
surnameOf_AfterParticle(detectedSurname, nameParts) ==
  IF Len(nameParts) >= 2 /\ toUpperCase(nameParts[1]) \in PREFIXES_TO_STRIP
  THEN nameParts[2]
  ELSE IF Len(nameParts) >= 1 THEN nameParts[1] ELSE UNDEFINED

\* detectedSurname || nameParts[0]
surnameOf(detectedSurname, nameParts) ==
  IF detectedSurname # <<>> THEN detectedSurname
  ELSE IF Len(nameParts) >= 1 THEN nameParts[1] ELSE UNDEFINED

\* /^[A-Z]\.?$/.test(p)
IsInitial(p) ==
  \/ (Len(p) = 1 /\ p[1] \in Range(UpperCase))
  \/ (Len(p) = 2 /\ p[1] \in Range(UpperCase) /\ p[2] = ".")

\* nameParts.filter(not the surname).filter(not a prefix).filter(3+ chars).filter(not an initial)
otherPartsOf(nameParts, surname) ==
  SelectSeq(nameParts, LAMBDA e : /\ toUpperCase(e) # toUpperCase(surname)
       /\ toUpperCase(e) \notin PREFIXES_TO_STRIP
       /\ Len(e) >= MinOtherPartLen
       /\ ~IsInitial(e))

\* a registry query: the WHERE clause of the URL a node builds
NoQuery == [tier |-> "none", CO_NO |-> 0, name |-> <<>>, orParts |-> <<>>]

\* CO_NO=${countyNumber}+AND+OWN_NAME='${primaryGrantee}'
exactQueryOf(countyNumber, primaryGrantee) ==
  [tier |-> "exact", CO_NO |-> countyNumber, name |-> primaryGrantee, orParts |-> <<>>]

\* `${surname}` inside the template string
InTemplate(s) == IF s = UNDEFINED THEN <<"u","n","d","e","f","i","n","e","d">> ELSE s

\* whereClause as the broad query: the surname predicate without the OR-group
likeQueryOf_Broad(countyNumber, surname, otherParts) ==
  [tier |-> "like", CO_NO |-> countyNumber, name |-> InTemplate(surname), orParts |-> <<>>]

\* whereClause: OWN_NAME LIKE '%surname%' [AND (OWN_NAME LIKE '%PART%' OR ...)]
likeQueryOf(countyNumber, surname, otherParts) ==
  [tier |-> "like", CO_NO |-> countyNumber, name |-> InTemplate(surname),
   orParts |-> [i \in 1..Len(otherParts) |-> toUpperCase(otherParts[i])]]

\* broadWhere: OWN_NAME LIKE '%surname%' only
broadQueryOf(countyNumber, surname) ==
  [tier |-> "like", CO_NO |-> countyNumber, name |-> InTemplate(surname), orParts |-> <<>>]

\* ------------------------------------------------------------------------
\* The parcel registry (ArcGIS feature service), as the queries see it
\* ------------------------------------------------------------------------

\* the WHERE clause of a query, evaluated on one parcel
Satisfies(parcel, q) ==
  /\ parcel.CO_NO = q.CO_NO
  /\ IF q.tier = "exact"
     THEN parcel.OWN_NAME = q.name
     ELSE /\ includes(parcel.OWN_NAME, q.name)
          /\ (q.orParts = <<>> \/ \E p \in Range(q.orParts) : includes(parcel.OWN_NAME, p))


\* ------------------------------------------------------------------------
\* Inputs: filings of the scraper, parcels of the registry
\* ------------------------------------------------------------------------

Parcel(no, own, legal, addr) ==
  [PARCELNO |-> no, OWN_NAME |-> own, S_LEGAL |-> legal, PHY_ADDR1 |-> addr,
   PHY_CITY |-> <<"O","r","l","a","n","d","o">>, PHY_ZIPCD |-> 32803, CO_NO |-> CO_NO_ORANGE]

name_MAHURIN == <<"M","A","H","U","R","I","N"," ","E","S","S","I","E"," ","B">>
name_LEE == <<"L","E","E"," ","A","N","N">>
name_OLIVEIRA == <<"D","E"," ","O","L","I","V","E","I","R","A"," ","A","N","D","R","E","A"," ","C">>

ParcelPool == <<
  Parcel("P1", name_MAHURIN, <<"P","R","I","M","R","O","S","E"," ","T","E","R","R","A","C","E"," ","T","/","7","1"," ","L","O","T"," ","9">>, <<"2","9","2","3"," ","E"," ","M","A","R","K","S"," ","S","T"," ">>),
  Parcel("P2", name_MAHURIN, <<"T","E","R","R","A","C","E"," ","P","R","I","M","R","O","S","E">>, <<"1","2"," ","O","A","K"," ","D","R">>),
  Parcel("P3", name_MAHURIN, <<"P","R","I","M","R","O","S","E","-","P","A","R","K"," ","V","I","S","T","A"," ","L","A","K","E","S">>, <<"1","3"," ","O","A","K"," ","D","R">>),
  Parcel("P4", name_MAHURIN, <<"L","A","K","E","S"," ","H","E","I","G","H","T","S"," ","P","A","R","K">>, <<"1","4"," ","O","A","K"," ","D","R">>),
  Parcel("P5", name_MAHURIN, <<"V","I","S","T","A","N","A"," ","L","A","K","E","S">>, <<"1","5"," ","O","A","K"," ","D","R">>),
  Parcel("P6", name_LEE, <<"V","I","S","T","A"," ","L","A","K","E","S">>, <<"1","6"," ","O","A","K"," ","D","R">>),
  Parcel("P7", <<"C","O","L","L","E","E","N"," ","H","A","N","N","A","H">>, <<"V","I","S","T","A"," ","L","A","K","E","S"," ","N"," ","2">>, <<"1","7"," ","O","A","K"," ","D","R">>),
  Parcel("P8", <<"L","E","E",","," ","A","N","N"," ","M">>, <<"V","I","S","T","A"," ","L","A","K","E","S"," ","V","I","L","L","A","G","E">>, <<"1","8"," ","O","A","K"," ","D","R">>),
  Parcel("P9", name_OLIVEIRA, <<"C","Y","P","R","E","S","S"," ","P","O","I","N","T","E"," ","R","E","S","O","R","T">>, <<"1","9"," ","O","A","K"," ","D","R">>),
  Parcel("P10", name_OLIVEIRA, <<"P","O","I","N","T","E"," ","W","E","S","T">>, <<"2","0"," ","O","A","K"," ","D","R">>),
  Parcel("P11", <<"O","L","I","V","E","I","R","A"," ","D","E","N","I","S","E">>, <<"C","Y","P","R","E","S","S"," ","G","R","O","V","E">>, <<"2","1"," ","O","A","K"," ","D","R">>) >>

\* a response of the registry holds at most this many features
MaxFeatures == 3

\* the feature lists the registry may answer a query with: distinct parcels
\* that satisfy the query's WHERE clause, in any order
featureListsFor(q) ==
  UNION {{[i \in DOMAIN p |-> ParcelPool[p[i]]] :
            p \in {f \in UNION {[1..k -> matching] : k \in 0..MaxFeatures} :
                     \A i, j \in DOMAIN f : i # j => f[i] # f[j]}} :
         matching \in {{i \in 1..Len(ParcelPool) : Satisfies(ParcelPool[i], q)}}}

Filing(doc, grantee, legal, county) ==
  [document_number |-> doc, grantee_name |-> grantee,
   legal_description |-> legal, county |-> county]

Filings == {
  Filing("F1", name_MAHURIN, <<"L","o","t",":"," ","9"," ","B","l","o","c","k",":"," ","D"," ","P","R","I","M","R","O","S","E"," ","T","E","R","R","A","C","E">>, UNDEFINED),
  Filing("F2", name_LEE, <<"L","o","t",":"," ","7"," ","V","I","S","T","A"," ","L","A","K","E","S">>, <<"O","r","a","n","g","e">>),
  Filing("F3", name_MAHURIN, <<"L","o","t",":"," ","9"," ","B","l","o","c","k",":"," ","D"," ","P","R","I","M","R","O","S","E"," ","T","E","R","R","A","C","E">>, <<"o","s","c","e","o","l","a">>),
  Filing("F4", <<>>, <<"L","o","t",":"," ","7"," ","V","I","S","T","A"," ","L","A","K","E","S">>, UNDEFINED),
  Filing("F5", <<" "," ","M","A","H","U","R","I","N"," ","E","S","S","I","E"," ","B","\n","N","E","W","R","E","Z"," ","L","L","C">>, <<"l","o","t",":"," ","7"," ","V","I","S","T","A"," ","L","A","K","E","S"," ","H","E","I","G","H","T","S">>, UNDEFINED),
  Filing("F6", <<"D","E"," ","O","L","I","V","E","I","R","A"," ","A","N","D","R","E","A"," ","C","\n","H","U","D","\n","D"," ","J"," ","G","L","O","B","A","L"," ","H","O","L","D","I","N","G"," ","L","L","C">>, <<"L","o","t",":"," ","3"," ","O","A","K"," ","1","2">>, UNDEFINED),
  Filing("F7", name_OLIVEIRA, <<" ","t","s",":"," ","C","Y","P","R","E","S","S"," ","P","O","I","N","T","E">>, UNDEFINED) }

\* what the "Detect Surname" language model may answer for a name: nothing,
\* or one of the name's first two words
SurnameAnswers(primaryGrantee) ==
  LET parts == IF primaryGrantee = UNDEFINED THEN <<>> ELSE split(primaryGrantee, WhiteSpace)
  IN {<<>>} \cup {parts[i] : i \in {j \in 1..Len(parts) : j <= 2}}

\* ------------------------------------------------------------------------
\* State: one filing on its way through the workflow
\* ------------------------------------------------------------------------

VARIABLES
  filing,     \* the item "Split Out" hands to "Prep Query"
  pc,         \* the node the item is at
  prepData,   \* output of "Prep Query"
  detected,   \* output text of "Detect Surname"
  likeData,   \* output of "Prep LIKE Retry"
  item,       \* $json between an HTTP Request node and its Route node
  out,        \* output of an Extract / Match / Flag node
  inflight,   \* registry requests sent and not yet answered
  calls,      \* every registry request sent, in order
  responses,  \* how each request was answered, in order: the kind of the
              \* answer and the number of features in it
  trace,      \* the nodes that ran, in order
  sink,       \* where the filing ended
  contacts,   \* the contacts "Prep Contacts" emitted
  first,      \* an earlier execution of the workflow for the same filing
  legal,      \* a legal description as the scraper read it, word by word
  subdivision, \* the subdivisionName "Prep Query" computes from legal
  isRunning,  \* server.ts: the concurrency lock of POST /scrape
  db,         \* database.ts: the module's connection, open or closed
  requests,   \* the POST /scrape requests: where handleScrape is, the response
  runs,       \* the call of runScraper each request made: where it is
  filingsTable, \* the document numbers in table filings of the SQLite file
  crm         \* crm.ts: a call of pushFilingsToCrm: where it is, its counters,
              \* the attempts made, column crm_status of table filings

vars == <<filing, pc, prepData, detected, likeData, item,
          out, inflight, calls, responses, trace, sink, contacts, first,
          legal, subdivision, isRunning, db, requests, runs, filingsTable, crm>>

\* the state of the scraper: its server, its database, its CRM push
scraper == <<isRunning, db, requests, runs, filingsTable, crm>>

\* what the nodes of one execution leave alone
outside == <<first, legal, subdivision, isRunning, db, requests, runs, filingsTable, crm>>

\* null, where a number is expected: no element
NULL == <<>>

NoPrep ==
  [error |-> FALSE, primaryGrantee |-> UNDEFINED, allGrantees |-> <<>>,
   subdivisionName |-> UNDEFINED, countyNumber |-> 0, queryUrl |-> NoQuery,
   lookup_status |-> "none"]

NoLike ==
  [retryingSurname |-> UNDEFINED, otherNameParts |-> <<>>, queryUrl |-> NoQuery,
   broadQueryUrl |-> NoQuery, hasTightQuery |-> FALSE, lookup_status |-> "none"]

NoItem == [error |-> FALSE, hasFeatures |-> FALSE, features |-> <<>>]

NoOut ==
  [lookup_status |-> "none", match_method |-> "none", match_score |-> NULL,
   unique_score |-> NULL, total_results |-> NULL,
   candidates_after_name_filter |-> NULL, best_score_found |-> NULL,
   total_keywords |-> NULL, property_address |-> UNDEFINED,
   property_city |-> UNDEFINED, property_zip |-> NULL,
   parcel_number |-> "null", owner_name_on_parcel |-> UNDEFINED,
   parcel_legal |-> UNDEFINED]

\* no legal description under study
NoLegal == [blank |-> FALSE, words |-> <<>>]

\* no subdivision name computed
NoExtract == legal = NoLegal /\ subdivision = UNDEFINED

\* a scrape request sent at most this many times
MaxRequests == 2

Requests == 1..MaxRequests

\* a request not yet sent: handleScrape has not been called for it
NoRequest ==
  [pc |-> "none", status |-> 0, new_filings |-> <<>>, busyOnArrival |-> FALSE,
   error |-> <<>>, error_step |-> "none"]

\* runScraper not called
NoRunScraper == [pc |-> "none", newFilings |-> <<>>, result |-> <<>>, error |-> <<>>]

\* pushFilingsToCrm not called
NoCrm ==
  [pc |-> "none", filings |-> <<>>, i |-> 0, success |-> FALSE, attempts |-> <<>>,
   firstAttempt |-> <<>>, lastAttempt |-> <<>>, pushed |-> 0, failed |-> 0,
   crm_status |-> <<>>]

\* server.ts and database.ts loaded: let isRunning = false; let db; the
\* table filings as the SQLite file holds it, empty at first
ServerStarted ==
  /\ isRunning = FALSE
  /\ db = "closed"
  /\ requests = [r \in Requests |-> NoRequest]
  /\ runs = [r \in Requests |-> NoRunScraper]
  /\ filingsTable = {}
  /\ crm = NoCrm

\* no earlier execution
NoRun ==
  [ran |-> FALSE, pc |-> "none", detected |-> UNDEFINED, likeData |-> NoLike,
   item |-> NoItem, out |-> NoOut, calls |-> <<>>, responses |-> <<>>,
   trace |-> <<>>, sink |-> "none", contacts |-> <<>>]

\* On Error of an HTTP Request node, which the workflow documentation leaves
\* open: stop the execution, or pass the item on with an error field
OnErrorSettings == {"stopWorkflow", "continueRegularOutput"}

\* how the registry answers a request: a feature list, an ArcGIS error body,
\* a body without features, or no answer (network error, timeout)
ResponseKinds == {"features", "error", "noFeatures", "failed"}

Init ==
  /\ filing \in Filings
  /\ pc = "Prep Query"
  /\ prepData = NoPrep
  /\ detected = UNDEFINED
  /\ likeData = NoLike
  /\ item = NoItem
  /\ out = NoOut
  /\ inflight = {}
  /\ calls = <<>>
  /\ responses = <<>>
  /\ trace = <<>>
  /\ sink = "none"
  /\ contacts = <<>>
  /\ first = NoRun
  /\ NoExtract
  /\ ServerStarted

\* the node at pc runs and hands the item to node next
Step(node, next) ==
  /\ pc = node
  /\ pc' = next
  /\ trace' = Append(trace, node)
  /\ UNCHANGED outside

\* ------------------------------------------------------------------------
\* Exact tier
\* ------------------------------------------------------------------------

\* NODE "Prep Query"
PrepQuery ==
  /\ Step("Prep Query", "Exact Match Query")
  /\ \E allGrantees \in {allGranteesOf(filing.grantee_name)},
        countyNumber \in {countyNumberOf(countyNameOf(filing.county))} :
       prepData' =
          IF UnknownCounty(countyNumber)
          THEN [NoPrep EXCEPT !.error = TRUE, !.lookup_status = "error"]
          ELSE [error |-> FALSE,
                primaryGrantee |-> primaryGranteeOf(allGrantees),
                allGrantees |-> allGrantees,
                subdivisionName |-> subdivisionNameOf(filing.legal_description),
                countyNumber |-> countyNumber,
                queryUrl |-> exactQueryOf(countyNumber, primaryGranteeOf(allGrantees)),
                lookup_status |-> "pending"]
  /\ UNCHANGED <<filing, detected, likeData, item, out,
                 inflight, calls, responses, sink, contacts>>

\* an HTTP Request node sends the request of URL {{ $json.queryUrl }}; without
\* a URL it sends nothing and fails
SendRequest(node, waiting, afterwards, q) ==
  /\ pc = node
  /\ trace' = Append(trace, node)
  /\ IF q = NoQuery
     THEN /\ \E setting \in OnErrorSettings :
               pc' = IF setting = "stopWorkflow" THEN "halted" ELSE afterwards
          /\ item' = [error |-> TRUE, hasFeatures |-> FALSE, features |-> <<>>]
          /\ UNCHANGED <<inflight, calls>>
     ELSE /\ pc' = waiting
          /\ inflight' = inflight \cup {q}
          /\ calls' = Append(calls, q)
          /\ item' = NoItem
  /\ UNCHANGED outside
  /\ UNCHANGED <<filing, prepData, detected, likeData, out,
                 responses, sink, contacts>>

\* the answer to the request of an HTTP Request node arrives
ReceiveResponse(waiting, afterwards, q) ==
  /\ pc = waiting
  /\ \E kind \in ResponseKinds, setting \in OnErrorSettings :
       /\ item' \in {[error |-> kind \in {"error", "failed"},
                       hasFeatures |-> kind = "features",
                       features |-> fs] :
                        fs \in IF kind = "features" THEN featureListsFor(q) ELSE {<<>>}}
       /\ responses' = Append(responses, [kind |-> kind, features |-> Len(item'.features)])
       /\ pc' = IF kind = "failed" /\ setting = "stopWorkflow" THEN "halted" ELSE afterwards
  /\ inflight' = inflight \ {q}
  /\ UNCHANGED outside
  /\ UNCHANGED <<filing, prepData, detected, likeData, out,
                 calls, trace, sink, contacts>>

\* NODE "Exact Match Query" (HTTP Request): the request
ExactMatchQuery ==
  SendRequest("Exact Match Query", "Exact Match Query (waiting)",
              "Normalize Results", prepData.queryUrl)

\* NODE "Exact Match Query" (HTTP Request): the response
ExactMatchResponse ==
  ReceiveResponse("Exact Match Query (waiting)", "Normalize Results", prepData.queryUrl)

\* normalized without the error branch: the item passes as it came
normalized_Unhandled(json) == json

\* if (item.error || !item.features) return { ...item, features: [] }
normalized(json) ==
  IF json.error \/ ~json.hasFeatures
  THEN [json EXCEPT !.features = <<>>, !.hasFeatures = TRUE]
  ELSE json

\* NODE "Normalize Results"
NormalizeResults ==
  /\ Step("Normalize Results", "Route Results")
  /\ item' = normalized(item)
  /\ UNCHANGED <<filing, prepData, detected, likeData, out,
                 inflight, calls, responses, sink, contacts>>

\* routeOutput with the rule "Multiple Results" missing: what no rule matches
\* leaves by output 0
routeOutput_NoRuleForMany(length) == IF length = 1 THEN 1 ELSE 0

\* Switch rules on {{ $json.features.length }}: output 0, 1 or 2
routeOutput(length) == IF length = 0 THEN 0 ELSE IF length = 1 THEN 1 ELSE 2

\* RouteResultsTo with the outputs 1 and 2 exchanged
RouteResultsTo_Exchanged == <<"Detect Surname", "Match Legal Description", "Extract Single Result">>

\* the nodes the outputs 0, 1, 2 of "Route Results" connect to
RouteResultsTo == <<"Detect Surname", "Extract Single Result", "Match Legal Description">>

\* a Switch node: without a features array the expression fails and the
\* execution stops
routeTo(json, outputs) ==
  IF json.hasFeatures THEN outputs[routeOutput(Len(json.features)) + 1] ELSE "halted"

\* NODE "Route Results" (Switch)
RouteResults ==
  /\ Step("Route Results", routeTo(item, RouteResultsTo))
  /\ UNCHANGED <<filing, prepData, detected, likeData, item,
                 out, inflight, calls, responses, sink, contacts>>

\* addr.PHY_ADDR1 ? addr.PHY_ADDR1.trim() : '' and the other copied fields
matchedOut(matched, method, score, best, totalKeywords, afterFilter, total) ==
  Only({
  [lookup_status |-> "matched", match_method |-> method, match_score |-> score,
   unique_score |-> IF score = NULL THEN NULL ELSE <<best.bestUniqueScore>>,
   total_results |-> <<total>>,
   candidates_after_name_filter |-> afterFilter,
   best_score_found |-> NULL,
   total_keywords |-> IF score = NULL THEN NULL ELSE <<totalKeywords>>,
   property_address |-> trim(feature.PHY_ADDR1),
   property_city |-> trim(feature.PHY_CITY),
   property_zip |-> <<feature.PHY_ZIPCD>>,
   parcel_number |-> feature.PARCELNO,
   owner_name_on_parcel |-> feature.OWN_NAME,
   parcel_legal |-> feature.S_LEGAL] : feature \in {matched}})

\* property_address: null, lookup_status: <status>, match_method: 'failed'
failedOut(status, best, totalKeywords, afterFilter, total) ==
  [NoOut EXCEPT !.lookup_status = status, !.match_method = "failed",
                !.total_results = <<total>>,
                !.candidates_after_name_filter = afterFilter,
                !.best_score_found = <<best.bestScore>>,
                !.total_keywords = <<totalKeywords>>]

\* NODE "Extract Single Result"
ExtractSingleResult ==
  /\ Step("Extract Single Result", "Merge Matched")
  /\ out' = matchedOut(item.features[1], "exact_name", NULL, NoBest, 0, NULL, 1)
  /\ UNCHANGED <<filing, prepData, detected, likeData, item,
                 inflight, calls, responses, sink, contacts>>

\* the scoring and the threshold both Match nodes share: the output for the
\* scored features
matchLegal(features, subdivisionName, method, failedStatus, afterFilter, total) ==
  Only({IF isGoodMatch(best, totalKeywords)
        THEN matchedOut(features[best.bestMatch], method, <<best.bestScore>>, best,
                        totalKeywords, afterFilter, total)
        ELSE failedOut(failedStatus, best, totalKeywords, afterFilter, total) :
        best \in {bestOf(features, subdivisionName)},
        totalKeywords \in {Len(allKeywordsOf(subdivisionName))}})

\* NODE "Match Legal Description"
MatchLegalDescription ==
  /\ Step("Match Legal Description", "Merge Matched")
  /\ out' = matchLegal(item.features, prepData.subdivisionName, "legal_description",
                       "no_legal_match", NULL, Len(item.features))
  /\ UNCHANGED <<filing, prepData, detected, likeData, item,
                 inflight, calls, responses, sink, contacts>>

\* ------------------------------------------------------------------------
\* Fuzzy (LIKE) tier
\* ------------------------------------------------------------------------

\* NODE "Detect Surname" (LLM chain on primaryGrantee)
DetectSurname ==
  /\ Step("Detect Surname", "Prep LIKE Retry")
  /\ detected' \in SurnameAnswers(prepData.primaryGrantee)
  /\ UNCHANGED <<filing, prepData, likeData, item, out,
                 inflight, calls, responses, sink, contacts>>

\* the output of "Prep LIKE Retry"
prepLikeRetry(prep, text) ==
  Only({LET surname == surnameOf(detectedSurname, nameParts)
        IN Only({[retryingSurname |-> surname,
                  otherNameParts |-> otherParts,
                  queryUrl |-> likeQueryOf(prep.countyNumber, surname, otherParts),
                  broadQueryUrl |-> broadQueryOf(prep.countyNumber, surname),
                  hasTightQuery |-> Len(otherParts) > 0,
                  lookup_status |-> "retrying_like"] :
                 otherParts \in {otherPartsOf(nameParts, surname)}}) :
        nameParts \in {namePartsOfGrantee(prep.primaryGrantee)},
        detectedSurname \in {detectedSurnameOf(text)}})

\* NODE "Prep LIKE Retry": primaryGrantee.split throws when "Prep Query"
\* returned its error item, which has no primaryGrantee
PrepLIKERetry ==
  /\ IF prepData.primaryGrantee = UNDEFINED
     THEN Step("Prep LIKE Retry", "halted") /\ UNCHANGED likeData
     ELSE /\ Step("Prep LIKE Retry", "LIKE Query")
          /\ likeData' = prepLikeRetry(prepData, detected)
  /\ UNCHANGED <<filing, prepData, detected, item, out,
                 inflight, calls, responses, sink, contacts>>

\* NODE "LIKE Query" (HTTP Request): the request
LIKEQuery ==
  SendRequest("LIKE Query", "LIKE Query (waiting)", "Normalize LIKE Results",
              likeData.queryUrl)

\* NODE "LIKE Query" (HTTP Request): the response
LIKEResponse ==
  ReceiveResponse("LIKE Query (waiting)", "Normalize LIKE Results", likeData.queryUrl)

\* NODE "Normalize LIKE Results"
NormalizeLIKEResults ==
  /\ Step("Normalize LIKE Results", "Route LIKE Results")
  /\ item' = normalized(item)
  /\ UNCHANGED <<filing, prepData, detected, likeData, out,
                 inflight, calls, responses, sink, contacts>>

\* RouteLIKEResultsTo with output 0 wired back to the LIKE request
RouteLIKEResultsTo_Retry == <<"LIKE Query", "Extract Single LIKE Result", "Match Legal LIKE">>

\* RouteLIKEResultsTo with output 2 left unconnected
RouteLIKEResultsTo_Unconnected == <<"Flag No Match", "Extract Single LIKE Result", "nowhere">>

\* the nodes the outputs 0, 1, 2 of "Route LIKE Results" connect to
RouteLIKEResultsTo == <<"Flag No Match", "Extract Single LIKE Result", "Match Legal LIKE">>

\* NODE "Route LIKE Results" (Switch)
RouteLIKEResults ==
  /\ Step("Route LIKE Results", routeTo(item, RouteLIKEResultsTo))
  /\ UNCHANGED <<filing, prepData, detected, likeData, item,
                 out, inflight, calls, responses, sink, contacts>>

\* NODE "Extract Single LIKE Result"
ExtractSingleLIKEResult ==
  /\ Step("Extract Single LIKE Result", "Merge Matched")
  /\ out' = matchedOut(item.features[1], "like_single", NULL, NoBest, 0, NULL, 1)
  /\ UNCHANGED <<filing, prepData, detected, likeData, item,
                 inflight, calls, responses, sink, contacts>>

\* "Match Legal LIKE" without the scoring: the first feature that passes the
\* owner filter is taken
MatchLegalLIKE_FirstCandidate ==
  /\ Step("Match Legal LIKE", "Merge Matched")
  /\ \E validFeatures \in {validFeaturesOf(item.features, prepData.primaryGrantee,
                                             likeData.retryingSurname)} :
       out' = IF validFeatures = <<>>
              THEN failedOut("no_match_found", NoBest, 0, <<0>>, Len(item.features))
              ELSE matchedOut(validFeatures[1], "like_legal_description", <<0>>, NoBest,
                              0, <<Len(validFeatures)>>, Len(item.features))
  /\ UNCHANGED <<filing, prepData, detected, likeData, item,
                 inflight, calls, responses, sink, contacts>>

\* NODE "Match Legal LIKE"
MatchLegalLIKE ==
  /\ Step("Match Legal LIKE", "Merge Matched")
  /\ \E validFeatures \in {validFeaturesOf(item.features, prepData.primaryGrantee,
                                             likeData.retryingSurname)} :
       out' = matchLegal(validFeatures, prepData.subdivisionName,
                         "like_legal_description", "no_match_found",
                         <<Len(validFeatures)>>, Len(item.features))
  /\ UNCHANGED <<filing, prepData, detected, likeData, item,
                 inflight, calls, responses, sink, contacts>>

\* NODE "Flag No Match"
FlagNoMatch ==
  /\ Step("Flag No Match", "Append row in sheet1")
  /\ out' = [NoOut EXCEPT !.lookup_status = "not_found", !.match_method = "exhausted"]
  /\ UNCHANGED <<filing, prepData, detected, likeData, item,
                 inflight, calls, responses, sink, contacts>>

\* NODE "Append row in sheet1" (Google Sheets, tab "No Address Found")
AppendRowInSheet1 ==
  /\ Step("Append row in sheet1", "done")
  /\ sink' = "No Address Found"
  /\ UNCHANGED <<filing, prepData, detected, likeData, item,
                 out, inflight, calls, responses, contacts>>

\* ------------------------------------------------------------------------
\* Output: "Merge Matched" and "Prep Contacts"
\* ------------------------------------------------------------------------

CORP_KEYWORDS == {
  <<"L","L","C">>,
  <<"I","N","C">>,
  <<"C","O","R","P">>,
  <<"C","O","R","P","O","R","A","T","I","O","N">>,
  <<"A","S","S","O","C","I","A","T","I","O","N">>,
  <<"B","A","N","K">>,
  <<"T","R","U","S","T">>,
  <<"S","E","C","R","E","T","A","R","Y"," ","O","F">>,
  <<"D","E","P","A","R","T","M","E","N","T"," ","O","F">>,
  <<"H","O","U","S","I","N","G"," ","A","U","T","H","O","R","I","T","Y">>,
  <<"F","I","N","A","N","C","E">>,
  <<"M","O","R","T","G","A","G","E">>,
  <<"L","E","N","D","I","N","G">>,
  <<"S","E","R","V","I","C","E","S">>,
  <<"H","O","L","D","I","N","G","S">>,
  <<"P","R","O","P","E","R","T","I","E","S">>,
  <<"V","E","N","T","U","R","E","S">>,
  <<"E","N","T","E","R","P","R","I","S","E","S">>,
  <<"G","R","O","U","P">>,
  <<"P","A","R","T","N","E","R","S">>,
  <<"F","U","N","D">>,
  <<"C","O","U","N","T","Y">>,
  <<"S","T","A","T","E"," ","O","F">>,
  <<"C","I","T","Y"," ","O","F">>,
  <<"H","O","M","E","O","W","N","E","R","S">>,
  <<"H","O","A">>,
  <<"P","U","R","C","H","A","S","I","N","G">>,
  <<"I","N","V","E","S","T","M","E","N","T","S">>,
  <<"N","A","T","I","O","N","A","L">>,
  <<"F","E","D","E","R","A","L">>,
  <<"C","O","M","P","A","N","Y">>,
  <<"S","A","V","I","N","G","S">>,
  <<"P","L","A","N">>
}

\* NODE "Merge Matched" (Merge, append): inputs from the four Extract / Match nodes
MergeMatched ==
  /\ Step("Merge Matched", "Prep Contacts")
  /\ UNCHANGED <<filing, prepData, detected, likeData, item,
                 out, inflight, calls, responses, sink, contacts>>

\* HasNoMatchedAddress with FILTER 1 left out: no item is skipped
HasNoMatchedAddress_Unfiltered(data) == FALSE

\* FILTER 1: !data.property_address || data.lookup_status !== 'matched'
HasNoMatchedAddress(data) ==
  \/ data.property_address = UNDEFINED
  \/ data.property_address = <<>>
  \/ data.lookup_status # "matched"

\* IsTimeshare without trim(): only a description whose first characters are TS:
IsTimeshare_Untrimmed(legal_description) ==
  StartsWithNoCase(IF legal_description = UNDEFINED THEN <<>> ELSE legal_description,
                   <<"T","S",":">>)

\* FILTER 2: /^TS:/i.test((data.legal_description || '').trim())
IsTimeshare(legal_description) ==
  StartsWithNoCase(trim(IF legal_description = UNDEFINED THEN <<>> ELSE legal_description),
                   <<"T","S",":">>)

\* matchWarningOf without the test of match_method: every single-result
\* match is validated
matchWarningOf_AnyMethod(data, subdivisionName) ==
  /\ data.total_results = <<1>>
  /\ \E subKeywords \in {allKeywordsOf(IF subdivisionName = UNDEFINED THEN <<>> ELSE subdivisionName)},
        parcelLegal \in {toUpperCase(IF data.parcel_legal = UNDEFINED THEN <<>> ELSE data.parcel_legal)} :
       /\ Len(subKeywords) > 0
       /\ ~\E i \in 1..Len(subKeywords) : includes(parcelLegal, subKeywords[i])

\* VALIDATE: a single exact match whose parcel legal description holds none of
\* the subdivision name's keywords
matchWarningOf(data, subdivisionName) ==
  /\ data.match_method = "exact_name"
  /\ data.total_results = <<1>>
  /\ \E subKeywords \in {allKeywordsOf(IF subdivisionName = UNDEFINED THEN <<>> ELSE subdivisionName)},
        parcelLegal \in {toUpperCase(IF data.parcel_legal = UNDEFINED THEN <<>> ELSE data.parcel_legal)} :
       /\ Len(subKeywords) > 0
       /\ ~\E i \in 1..Len(subKeywords) : includes(parcelLegal, subKeywords[i])

\* IsIndividual without the corporate keywords: only the length and the
\* single-word filters
IsIndividual_CorporateToo(name) ==
  \E upperName \in {trim(toUpperCase(name))} :
    /\ Len(upperName) >= 2
    /\ Len(split(upperName, WhiteSpace)) # 1

\* the name filters: a corporate keyword, an empty or one-letter name, a single word
IsIndividual(name) ==
  \E upperName \in {trim(toUpperCase(name))} :
    /\ ~\E kw \in CORP_KEYWORDS : includes(upperName, kw)
    /\ Len(upperName) >= 2
    /\ Len(split(upperName, WhiteSpace)) # 1

\* lastName and firstName of a name that passed the filters
contactOf(name, data, warning) ==
  Only({LET prefixed == Len(parts) >= 3 /\ parts[1] \in PREFIXES_TO_STRIP
        IN [grantee_name |-> name,
            last_name |-> IF prefixed THEN parts[1] \o <<" ">> \o parts[2] ELSE parts[1],
            first_name |-> IF prefixed THEN parts[3] ELSE parts[2],
            property_address |-> data.property_address,
            match_method |-> data.match_method,
            match_warning |-> warning] :
        parts \in {split(trim(toUpperCase(name)), WhiteSpace)}})

\* contactsOf with a memory of the earlier execution: a filing whose contacts
\* went out once yields none the second time
contactsOf_OncePerFiling(data, prep, legal_description) ==
  IF HasNoMatchedAddress(data) \/ IsTimeshare(legal_description) \/ first.contacts # <<>>
  THEN <<>>
  ELSE Only({[i \in 1..Len(names) |-> contactOf(names[i], data, warning)] :
             names \in {SelectSeq(prep.allGrantees, LAMBDA e : IsIndividual(e))},
             warning \in {matchWarningOf(data, prep.subdivisionName)}})

\* the contacts "Prep Contacts" pushes for one merged item
contactsOf(data, prep, legal_description) ==
  IF HasNoMatchedAddress(data) \/ IsTimeshare(legal_description)
  THEN <<>>
  ELSE Only({[i \in 1..Len(names) |-> contactOf(names[i], data, warning)] :
             names \in {SelectSeq(prep.allGrantees, LAMBDA e : IsIndividual(e))},
             warning \in {matchWarningOf(data, prep.subdivisionName)}})

\* NODE "Prep Contacts": its output goes on to "Bundle for Tracerfy"; an item
\* it skips goes nowhere
PrepContacts ==
  /\ Step("Prep Contacts", "done")
  /\ contacts' = contactsOf(out, prepData, filing.legal_description)
  /\ sink' = IF contacts' # <<>> THEN "Bundle for Tracerfy" ELSE "dropped"
  /\ UNCHANGED <<filing, prepData, detected, likeData, item,
                 out, inflight, calls, responses>>

\* ------------------------------------------------------------------------
\* The workflow
\* ------------------------------------------------------------------------

Next ==
  \/ PrepQuery
  \/ ExactMatchQuery
  \/ ExactMatchResponse
  \/ NormalizeResults
  \/ RouteResults
  \/ ExtractSingleResult
  \/ MatchLegalDescription
  \/ DetectSurname
  \/ PrepLIKERetry
  \/ LIKEQuery
  \/ LIKEResponse
  \/ NormalizeLIKEResults
  \/ RouteLIKEResults
  \/ ExtractSingleLIKEResult
  \/ MatchLegalLIKE
  \/ FlagNoMatch
  \/ AppendRowInSheet1
  \/ MergeMatched
  \/ PrepContacts

Spec == Init /\ [][Next]_vars

\* every node that has an item runs it; every request sent is answered
FairSpec == Spec /\ WF_vars(Next)

\* ------------------------------------------------------------------------
\* Properties of the resolution pipeline
\* ------------------------------------------------------------------------

\* node has run
Ran(node) == \E i \in 1..Len(trace) : trace[i] = node

\* a LIKE request has been sent
FuzzyIssued == \E i \in 1..Len(calls) : calls[i].tier = "like"

\* the exact request has been answered
ExactAnswered == Len(responses) >= 1

\* the LIKE request has been answered
FuzzyAnswered == Len(responses) >= 2

\* the filing's county is not in COUNTY_NUMBERS
FilingOfUnknownCounty == countyNameOf(filing.county) # COUNTY_NAME_ORANGE

NoMatchStatuses == {"no_legal_match", "no_match_found", "not_found"}

\* C1: a LIKE request is sent only if the exact request brought zero
\* candidates; when the exact request brings two or more candidates the
\* fuzzy tier is never entered, and if the scorer then finds no legal match
\* the resolution ends with no_legal_match.
C1_FuzzyOnlyAfterEmptyExact ==
  /\ FuzzyIssued => (ExactAnswered /\ responses[1].features = 0)
  /\ (ExactAnswered /\ responses[1].features >= 2) =>
       /\ ~FuzzyIssued
       /\ ~Ran("Detect Surname") /\ pc # "Detect Surname"
       /\ (pc = "done" /\ out.lookup_status # "matched") =>
            (out.lookup_status = "no_legal_match" /\ out.match_method = "failed")

C1_Witness ==
  /\ pc = "done"
  /\ responses[1].features >= 2
  /\ out.lookup_status = "no_legal_match"
  /\ calls = <<prepData.queryUrl>>

\* C2 as the specification states it: a failed registry call is never handled
\* as an empty candidate list, so no LIKE request follows a failed exact
\* request and no failed request ends in a no-match outcome.
C2_FailureIsDistinct ==
  \A i \in 1..Len(responses) :
    responses[i].kind # "features" =>
      /\ Len(calls) = i
      /\ ~Ran("Detect Surname") /\ ~Ran("Flag No Match")
      /\ out.lookup_status \notin NoMatchStatuses

\* C2 as amended: a failed registry call that the HTTP node passes on is
\* normalised to an empty feature list. After a failed exact request the
\* item leaves "Route Results" by output 0 to "Detect Surname"; after a failed
\* LIKE request it leaves "Route LIKE Results" by output 0 to "Flag No Match"
\* and ends as not_found in "No Address Found". No request is sent twice.
C2_FailureIsEmptyResult ==
  /\ Len(calls) <= 2
  /\ \A i, j \in 1..Len(calls) : i # j => calls[i].tier # calls[j].tier
  /\ (ExactAnswered /\ responses[1].kind # "features" /\ Ran("Route Results")) =>
       /\ pc = "Detect Surname" \/ Ran("Detect Surname")
       /\ ~Ran("Extract Single Result") /\ ~Ran("Match Legal Description")
  /\ (FuzzyAnswered /\ responses[2].kind # "features" /\ Ran("Route LIKE Results")) =>
       /\ pc = "Flag No Match" \/ Ran("Flag No Match")
       /\ pc = "done" => (out.lookup_status = "not_found" /\ sink = "No Address Found")

C2_Witness ==
  /\ pc = "done"
  /\ FuzzyAnswered
  /\ responses[1].kind = "error"
  /\ responses[2].kind = "noFeatures"
  /\ sink = "No Address Found"

\* C3: for a filing of a county that is not in COUNTY_NUMBERS, "Prep Query"
\* returns an error item without a query, and no request, exact or LIKE, is
\* ever sent to the registry.
C3_UnknownCountySendsNothing ==
  FilingOfUnknownCounty =>
    /\ calls = <<>> /\ inflight = {} /\ responses = <<>>
    /\ likeData.queryUrl = NoQuery
    /\ Ran("Prep Query") =>
         /\ prepData.error /\ prepData.lookup_status = "error"
         /\ prepData.queryUrl = NoQuery

C3_Witness ==
  /\ FilingOfUnknownCounty
  /\ Ran("Exact Match Query")
  /\ Ran("Prep LIKE Retry")
  /\ pc = "halted"

\* C4 as the specification states it: every filing that ends without a match
\* (no_legal_match on the exact tier, no_match_found or not_found on the
\* fuzzy tier) is delivered to the "No Address Found" sheet.
C4_NoMatchReachesManualReview ==
  (pc = "done" /\ out.lookup_status \in NoMatchStatuses) => sink = "No Address Found"

\* C5: at most one registry request is outstanding, at most two are sent, the
\* first exact and the second LIKE; the LIKE request is sent only after the
\* exact request was answered, and "Exact Match Query" runs before "LIKE Query".
C5_OneRequestAtATime ==
  /\ Cardinality(inflight) <= 1
  /\ Len(calls) <= 2
  /\ Len(calls) >= 1 => calls[1].tier = "exact"
  /\ Len(calls) = 2 =>
       /\ calls[2].tier = "like"
       /\ ExactAnswered
       /\ inflight \subseteq {calls[2]}
  /\ \A i \in 1..Len(trace) :
       trace[i] = "LIKE Query" =>
         /\ \E j \in 1..(i - 1) : trace[j] = "Exact Match Query"
         /\ \A j \in i..Len(trace) : trace[j] # "Exact Match Query"

C5_Witness ==
  /\ Len(calls) = 2
  /\ inflight = {calls[2]}
  /\ pc = "LIKE Query (waiting)"

\* the resolution is over: every node that had the item has run
Terminal == pc \in {"done", "halted"}

\* C6: every resolution ends after at most twelve node runs, in a matched or
\* a no-match outcome unless the execution was stopped (the filing's county is
\* unknown, or a request was not answered), and stays ended.
C6_Terminates ==
  /\ [](Len(trace) <= 12)
  /\ [](pc = "done" => out.lookup_status \in {"matched"} \cup NoMatchStatuses)
  /\ [](pc = "halted" =>
          \/ FilingOfUnknownCounty
          \/ \E i \in 1..Len(responses) : responses[i].kind = "failed")
  /\ <>[]Terminal

C6_Witness ==
  /\ pc = "done"
  /\ Len(trace) = 12
  /\ FuzzyAnswered
  /\ out.lookup_status = "no_match_found"
\* the features a Match node scored: all of them on the exact tier, those of
\* a matching owner name on the fuzzy tier
ScoredFeatures ==
  IF Ran("Match Legal LIKE")
  THEN validFeaturesOf(item.features, prepData.primaryGrantee, likeData.retryingSurname)
  ELSE item.features

\* a Match node has run
Scored == Ran("Match Legal Description") \/ Ran("Match Legal LIKE")

\* uniqueScore and totalScore of a parcel's legal description for the filing
PairOf(S_LEGAL) ==
  scoresOf(S_LEGAL, uniqueKeywordsOf(allKeywordsOf(prepData.subdivisionName)),
                    commonKeywordsOf(allKeywordsOf(prepData.subdivisionName)))

\* pair a is lexicographically greater than pair b, totalScore first
Greater(a, b) ==
  \/ a.totalScore > b.totalScore
  \/ (a.totalScore = b.totalScore /\ a.uniqueScore > b.uniqueScore)

\* the pairs of the features a Match node scored, in the order of the response
ScoredPairs ==
  Only({SubSeq([i \in 1..Len(features) |-> scoresOf(features[i].S_LEGAL, unique, common)],
               1, Len(features)) :
        features \in {ScoredFeatures},
        unique \in {uniqueKeywordsOf(allKeywordsOf(prepData.subdivisionName))},
        common \in {commonKeywordsOf(allKeywordsOf(prepData.subdivisionName))}})

\* the indices of the pairs that are lexicographically maximal
Maximal(pairs) ==
  {i \in DOMAIN pairs : \A j \in DOMAIN pairs : ~Greater(pairs[j], pairs[i])}

\* the fuzzy tier's candidates that pass the owner filter
AfterOwnerFilter ==
  validFeaturesOf(item.features, prepData.primaryGrantee, likeData.retryingSurname)

Methods == {"exact_name", "legal_description", "like_single", "like_legal_description"}

\* C7 as the specification states it: in a matched outcome exact_name means
\* the exact request brought one candidate, legal_description two or more,
\* like_single that one candidate remained after the owner filter on the fuzzy
\* tier, like_legal_description that two or more remained; match_score is null
\* for exact_name and like_single, the winner's totalScore otherwise.
C7_TagIdentifiesPath ==
  out.lookup_status = "matched" =>
    /\ out.match_method \in Methods
    /\ out.match_method = "exact_name" <=> responses[1].features = 1
    /\ out.match_method = "legal_description" <=> responses[1].features >= 2
    /\ out.match_method = "like_single" <=> (FuzzyAnswered /\ Len(AfterOwnerFilter) = 1)
    /\ out.match_method = "like_legal_description" <=> (FuzzyAnswered /\ Len(AfterOwnerFilter) >= 2)
    /\ out.match_score = NULL <=> out.match_method \in {"exact_name", "like_single"}
    /\ out.match_score # NULL => out.match_score = <<PairOf(out.parcel_legal).totalScore>>

\* C7 as amended: the tag of a matched outcome tells how many candidates the
\* request of its tier brought, before any owner filter: exact_name one and
\* legal_description two or more from the exact request, like_single one and
\* like_legal_description two or more from the LIKE request; match_score is
\* null for exact_name and like_single, the winner's totalScore otherwise.
C7_TagIdentifiesQueryResult ==
  out.lookup_status = "matched" =>
    /\ out.match_method \in Methods
    /\ out.match_method = "exact_name" <=> responses[1].features = 1
    /\ out.match_method = "legal_description" <=> responses[1].features >= 2
    /\ out.match_method = "like_single" <=> (FuzzyAnswered /\ responses[2].features = 1)
    /\ out.match_method = "like_legal_description" <=> (FuzzyAnswered /\ responses[2].features >= 2)
    /\ out.match_score = NULL <=> out.match_method \in {"exact_name", "like_single"}
    /\ out.match_score # NULL => out.match_score = <<PairOf(out.parcel_legal).totalScore>>

C7_Witness ==
  /\ pc = "done"
  /\ out.match_method = "like_legal_description"
  /\ responses[2].features >= 2
  /\ Len(AfterOwnerFilter) = 1
  /\ out.match_score = <<2>>

\* C8 as the specification states it: the parcel of every match of the fuzzy
\* tier, like_single or like_legal_description, has an owner name that shares
\* a whole word with the filing's primary name or with the surname of the
\* LIKE request.
C8_FuzzyMatchPassesOwnerFilter ==
  (out.lookup_status = "matched" /\ out.match_method \in {"like_single", "like_legal_description"}) =>
    ownerNameMatches(out.owner_name_on_parcel, prepData.primaryGrantee, likeData.retryingSurname)

\* C8 as amended: the parcel of every like_legal_description match has an
\* owner name that shares a whole word with the filing's primary name or with
\* the surname of the LIKE request; a like_single match is the only feature of
\* the LIKE response, taken as it is.
C8_ScoredFuzzyMatchPassesOwnerFilter ==
  /\ (out.lookup_status = "matched" /\ out.match_method = "like_legal_description") =>
       ownerNameMatches(out.owner_name_on_parcel, prepData.primaryGrantee, likeData.retryingSurname)
  /\ (out.lookup_status = "matched" /\ out.match_method = "like_single") =>
       /\ Len(item.features) = 1
       /\ out.parcel_number = item.features[1].PARCELNO

C8_Witness ==
  /\ pc = "done"
  /\ out.lookup_status = "matched"
  /\ out.match_method = "like_legal_description"
  /\ ~ownerNameMatches(item.features[1].OWN_NAME, prepData.primaryGrantee, likeData.retryingSurname)
  /\ PairOf(item.features[1].S_LEGAL).totalScore >= 2

\* min(minRequired, 2) for minRequired = max(2, ceil(0.4 * totalKeywords))
Threshold ==
  Only({IF (IF n > 2 THEN n ELSE 2) < 2 THEN n ELSE 2 :
        n \in {(2 * Len(allKeywordsOf(prepData.subdivisionName)) + 4) \div 5}})

\* C9: a Match node returns a match if and only if the winner, a scored
\* feature of a maximal pair, has uniqueScore >= 1 and
\* totalScore >= min(minRequired, 2); otherwise it returns no_legal_match
\* (exact tier) or no_match_found (fuzzy tier) with total_results the number
\* of candidates of the response.
C9_AcceptedIffThreshold ==
  Scored =>
    \E pairs \in {ScoredPairs}, threshold \in {Threshold} :
      \E accepted \in {\E i \in Maximal(pairs) : /\ pairs[i].uniqueScore >= 1
                                                 /\ pairs[i].totalScore >= threshold} :
        /\ out.lookup_status = "matched" <=> accepted
        /\ ~accepted =>
             /\ out.lookup_status =
                  IF Ran("Match Legal LIKE") THEN "no_match_found" ELSE "no_legal_match"
             /\ out.match_method = "failed"
             /\ out.total_results = <<Len(item.features)>>
             /\ Ran("Match Legal LIKE") => out.candidates_after_name_filter = <<Len(pairs)>>

C9_Witness ==
  /\ pc = "done"
  /\ Ran("Match Legal Description")
  /\ out.lookup_status = "no_legal_match"
  /\ out.best_score_found = <<2>>
  /\ out.total_results = <<2>>

\* C10: the parcel of a match a Match node returns is the first scored
\* feature, in the order of the response, whose pair (totalScore, uniqueScore)
\* is lexicographically maximal, and match_score and unique_score are that
\* pair; without a match best_score_found is the greatest totalScore.
C10_WinnerIsFirstMaximal ==
  Scored =>
    \E features \in {ScoredFeatures}, pairs \in {ScoredPairs} :
      IF out.lookup_status = "matched"
      THEN \E w \in Maximal(pairs) :
             /\ \A i \in Maximal(pairs) : w <= i
             /\ out.parcel_number = features[w].PARCELNO
             /\ out.match_score = <<pairs[w].totalScore>>
             /\ out.unique_score = <<pairs[w].uniqueScore>>
      ELSE \A i \in DOMAIN pairs :
             /\ pairs[i].totalScore <= out.best_score_found[1]
             /\ i \in Maximal(pairs) => out.best_score_found = <<pairs[i].totalScore>>

C10_Witness ==
  /\ pc = "done"
  /\ out.lookup_status = "matched"
  /\ Scored
  /\ Cardinality(Maximal(ScoredPairs)) >= 2
  /\ 1 \notin Maximal(ScoredPairs)
  /\ \E w \in Maximal(ScoredPairs) : out.parcel_number = ScoredFeatures[w].PARCELNO

\* the number of keywords of the filing's subdivision name
TotalKeywords == Len(allKeywordsOf(prepData.subdivisionName))

\* C11: when the subdivision name has no keyword (totalKeywords = 0) a Match
\* node never returns a match: its outcome is never matched and its method is
\* never legal_description or like_legal_description, whatever the candidates.
C11_NoKeywordsNoLegalMatch ==
  (Scored /\ TotalKeywords = 0) =>
    /\ out.lookup_status # "matched"
    /\ out.match_method \notin {"legal_description", "like_legal_description"}
    /\ out.lookup_status \in {"no_legal_match", "no_match_found"}

C11_Witness ==
  /\ pc = "done"
  /\ Ran("Match Legal Description")
  /\ TotalKeywords = 0
  /\ Len(item.features) = 2
  /\ out.lookup_status = "no_legal_match"

\* the filing's legal description, trimmed, starts with TS: in any case
TimeshareFiling ==
  \E d \in {trim(filing.legal_description)} :
    Len(d) >= 3 /\ toUpperCase(SubSeq(d, 1, 3)) = <<"T","S",":">>

\* C12: a filing whose legal description, trimmed, starts with 'TS:' in any
\* letter case is never eligible: no contact is emitted for it and it does
\* not go on to Bundle for Tracerfy, whatever the outcome, the method and the
\* party names.
C12_TimeshareNeverEligible ==
  TimeshareFiling => (contacts = <<>> /\ sink # "Bundle for Tracerfy")

C12_Witness ==
  /\ pc = "done"
  /\ TimeshareFiling
  /\ filing.legal_description[1] = " "
  /\ out.lookup_status = "matched"
  /\ out.match_method = "legal_description"
  /\ out.property_address # UNDEFINED
  /\ \E i \in 1..Len(prepData.allGrantees) : IsIndividual(prepData.allGrantees[i])
  /\ sink = "dropped"

\* C13: no contact is emitted for a filing whose outcome is not matched
\* (no_legal_match, no_match_found, not_found, error): every contact belongs
\* to a matched outcome with a property address.
C13_ContactsOnlyForMatched ==
  /\ out.lookup_status # "matched" => (contacts = <<>> /\ sink # "Bundle for Tracerfy")
  /\ \A i \in 1..Len(contacts) :
       /\ out.lookup_status = "matched"
       /\ contacts[i].property_address = out.property_address
       /\ contacts[i].property_address \notin {UNDEFINED, <<>>}

C13_Witness ==
  /\ pc = "done"
  /\ Ran("Prep Contacts")
  /\ out.lookup_status = "no_match_found"
  /\ ~TimeshareFiling
  /\ \E i \in 1..Len(prepData.allGrantees) : IsIndividual(prepData.allGrantees[i])
  /\ contacts = <<>>
  /\ sink = "dropped"

\* name, uppercased, contains an entry of CORP_KEYWORDS as a substring
Corporate(name) ==
  \E upperName \in {toUpperCase(name)} : \E kw \in CORP_KEYWORDS : includes(upperName, kw)

\* name consists of exactly one whitespace-separated token
SingleToken(name) == Len(split(name, WhiteSpace)) = 1

\* C14: a party name that, uppercased, contains an entry of CORP_KEYWORDS as
\* a substring, or that consists of exactly one token, is never eligible:
\* no contact carries such a name, whatever the outcome of the filing.
C14_CorporateOrSingleTokenNeverEligible ==
  /\ \A i \in 1..Len(contacts) :
       ~Corporate(contacts[i].grantee_name) /\ ~SingleToken(contacts[i].grantee_name)
  /\ \A j \in 1..Len(prepData.allGrantees) :
       (Corporate(prepData.allGrantees[j]) \/ SingleToken(prepData.allGrantees[j])) =>
          ~\E i \in 1..Len(contacts) : contacts[i].grantee_name = prepData.allGrantees[j]

C14_Witness ==
  /\ pc = "done"
  /\ out.lookup_status = "matched"
  /\ Len(prepData.allGrantees) = 3
  /\ SingleToken(prepData.allGrantees[2])
  /\ Corporate(prepData.allGrantees[3])
  /\ Len(contacts) = 1
  /\ contacts[1].grantee_name = prepData.allGrantees[1]
  /\ sink = "Bundle for Tracerfy"

\* no keyword of the subdivision name (4+ characters, not a number) occurs as
\* a substring of the matched parcel's legal description
NoKeywordOccurs ==
  \E subKeywords \in {allKeywordsOf(prepData.subdivisionName)},
     parcelLegal \in {toUpperCase(out.parcel_legal)} :
    ~\E k \in 1..Len(subKeywords) : includes(parcelLegal, subKeywords[k])

\* the filing's contacts are its grantees that pass the name filters, with
\* or without a warning
SameEligibility ==
  \E names \in {SelectSeq(prepData.allGrantees, LAMBDA e : IsIndividual(e))} :
    /\ Len(contacts) = Len(names)
    /\ \A i \in 1..Len(names) : contacts[i].grantee_name = names[i]

\* C15 as the specification states it: for a match of method exact_name from
\* exactly one candidate of the exact request the contacts carry the
\* 'address unverified' warning if and only if no keyword of the subdivision
\* name occurs as a substring of the parcel's legal description; for every
\* other method there is no warning; the warning does not change which
\* contacts are emitted.
C15_WarningIffNoKeywordOccurs ==
  (pc = "done" /\ out.lookup_status = "matched" /\ ~TimeshareFiling) =>
    /\ SameEligibility
    /\ \A i \in 1..Len(contacts) :
         IF out.match_method = "exact_name" /\ responses[1].features = 1
         THEN contacts[i].match_warning <=> NoKeywordOccurs
         ELSE ~contacts[i].match_warning

\* C15 as amended: the warning is set if and only if the subdivision name
\* has at least one keyword and none of its keywords occurs as a substring of
\* the parcel's legal description; a subdivision name without keywords gets
\* no warning. For every other method there is no warning; the warning does
\* not change which contacts are emitted.
C15_WarningIffKeywordsAndNoneOccurs ==
  (pc = "done" /\ out.lookup_status = "matched" /\ ~TimeshareFiling) =>
    /\ SameEligibility
    /\ \A i \in 1..Len(contacts) :
         IF out.match_method = "exact_name" /\ responses[1].features = 1
         THEN contacts[i].match_warning <=> (TotalKeywords > 0 /\ NoKeywordOccurs)
         ELSE ~contacts[i].match_warning

C15_Witness ==
  /\ pc = "done"
  /\ out.match_method = "exact_name"
  /\ TotalKeywords = 0
  /\ NoKeywordOccurs
  /\ Len(contacts) = 1
  /\ ~contacts[1].match_warning

\* ------------------------------------------------------------------------
\* Two executions of the workflow for the same filing
\* ------------------------------------------------------------------------

\* the workflow is executed once more with the filing of an execution that
\* ran to its end: that execution is kept for comparison and the item starts
\* again at "Prep Query"
Restart ==
  /\ pc = "done"
  /\ ~first.ran
  /\ first' = [ran |-> TRUE, pc |-> pc, detected |-> detected, likeData |-> likeData,
               item |-> item, out |-> out, calls |-> calls, responses |-> responses,
               trace |-> trace, sink |-> sink, contacts |-> contacts]
  /\ pc' = "Prep Query"
  /\ prepData' = NoPrep
  /\ detected' = UNDEFINED
  /\ likeData' = NoLike
  /\ item' = NoItem
  /\ out' = NoOut
  /\ inflight' = {}
  /\ calls' = <<>>
  /\ responses' = <<>>
  /\ trace' = <<>>
  /\ sink' = "none"
  /\ contacts' = <<>>
  /\ UNCHANGED <<filing, legal, subdivision>>
  /\ UNCHANGED scraper

\* the filings executed twice
TwinFilings == {f \in Filings : primaryGranteeOf(allGranteesOf(f.grantee_name)) = name_OLIVEIRA}

TwinInit == Init /\ filing \in TwinFilings

TwinNext ==
  \/ PrepQuery
  \/ ExactMatchQuery
  \/ ExactMatchResponse
  \/ NormalizeResults
  \/ RouteResults
  \/ ExtractSingleResult
  \/ MatchLegalDescription
  \/ DetectSurname
  \/ PrepLIKERetry
  \/ LIKEQuery
  \/ LIKEResponse
  \/ NormalizeLIKEResults
  \/ RouteLIKEResults
  \/ ExtractSingleLIKEResult
  \/ MatchLegalLIKE
  \/ FlagNoMatch
  \/ AppendRowInSheet1
  \/ MergeMatched
  \/ PrepContacts
  \/ Restart

TwinSpec == TwinInit /\ [][TwinNext]_vars

\* the execution in progress, in the shape of first
second ==
  [ran |-> TRUE, pc |-> pc, detected |-> detected, likeData |-> likeData,
   item |-> item, out |-> out, calls |-> calls, responses |-> responses,
   trace |-> trace, sink |-> sink, contacts |-> contacts]

\* the answer to the k-th request of an execution: its kind and its features.
\* A request follows another only after an answer without features, so the
\* features the item still holds are those of the last answer.
Answer(run, k) ==
  [kind |-> run.responses[k].kind,
   count |-> run.responses[k].features,
   features |-> IF k = Len(run.responses) THEN run.item.features ELSE <<>>]

\* the registry answered both executions as one function of the query:
\* a query sent in both got the same answer
SameRegistry ==
  \A i \in 1..Len(first.responses), j \in 1..Len(responses) :
    first.calls[i] = calls[j] => Answer(first, i) = Answer(second, j)

\* the parcels the registry returned to an execution
ParcelsSeen(run) ==
  UNION {Range(Answer(run, k).features) : k \in 1..Len(run.responses)}

\* every feature list an execution got is all of database that satisfies the
\* query
Complete(run, database) ==
  \A k \in 1..Len(run.responses) :
    run.responses[k].kind = "features" =>
      Range(Answer(run, k).features) = {p \in database : Satisfies(p, run.calls[k])}

\* the registry held the same parcels during both executions
SameDatabase ==
  \E database \in {ParcelsSeen(first) \cup ParcelsSeen(second)} :
    Complete(first, database) /\ Complete(second, database)

\* both executions ran to the end, none was stopped by an On Error setting
BothDone == first.ran /\ first.pc = "done" /\ pc = "done"

\* outcome, method, score and diagnostics (out), the path of nodes, the sink
\* and the contacts of an execution
Result(run) ==
  [out |-> run.out, trace |-> run.trace, sink |-> run.sink, contacts |-> run.contacts]

Retrying == likeData.lookup_status = "retrying_like"

\* the words of the primary name
PrimaryNameTokens == split(prepData.primaryGrantee, WhiteSpace)

\* the first word of the primary name is one of the particles
StartsWithParticle ==
  \E tokens \in {PrimaryNameTokens} :
    Len(tokens) >= 2 /\ toUpperCase(tokens[1]) \in PREFIXES_TO_STRIP

\* C17 as the specification states it: the surname of the fuzzy query is the
\* second word of the primary name when the name has two or more words and
\* its first word is one of DE, DEL, DELA, DI, VAN, VON, LA, LE, MC, ST in any
\* case, and the first word otherwise; the LIKE request has a substring
\* predicate for it.
C17_SurnameSkipsParticle ==
  (Retrying /\ PrimaryNameTokens # <<>>) =>
    \E tokens \in {PrimaryNameTokens} :
      /\ likeData.retryingSurname = IF StartsWithParticle THEN tokens[2] ELSE tokens[1]
      /\ FuzzyIssued => calls[2].name = likeData.retryingSurname

\* C17 as amended: the surname of the fuzzy query is the answer of "Detect
\* Surname", trimmed and in upper case, when that is not empty, and the first
\* word of the primary name otherwise, particle or not; the LIKE request has a
\* substring predicate for it. The particles are only kept out of the other
\* name parts of the request.
C17_SurnameIsDetectedOrFirstToken ==
  (Retrying /\ PrimaryNameTokens # <<>>) =>
    \E tokens \in {PrimaryNameTokens}, answer \in {toUpperCase(trim(detected))} :
      /\ likeData.retryingSurname = IF answer # <<>> THEN answer ELSE tokens[1]
      /\ FuzzyIssued =>
           /\ calls[2].name = likeData.retryingSurname
           /\ \A k \in 1..Len(calls[2].orParts) :
                /\ calls[2].orParts[k] \notin PREFIXES_TO_STRIP
                /\ calls[2].orParts[k] # toUpperCase(likeData.retryingSurname)

C17_Witness ==
  /\ FuzzyIssued
  /\ StartsWithParticle
  /\ detected = <<>>
  /\ likeData.retryingSurname = PrimaryNameTokens[1]
  /\ calls[2].name = PrimaryNameTokens[1]
  /\ Len(calls[2].orParts) = 2

\* ------------------------------------------------------------------------
\* The subdivision name of "Prep Query", on legal descriptions of all shapes
\* ------------------------------------------------------------------------

\* the words legal descriptions are written with: the markers in several
\* letter cases, a lot or block number, a word of a subdivision name
LegalWords == {
  <<"L","o","t",":">>,
  <<"b","l","o","c","k",":">>,
  <<"t","s",":">>,
  <<"R","e","p","l","a","t">>,
  <<"O","F">>,
  <<"9">>,
  <<"P","A","R","K">> }

\* a legal description has at most this many words
MaxWords == 4

\* words, with one blank between them
RECURSIVE JoinWords(_)
JoinWords(ws) ==
  IF ws = <<>> THEN <<>>
  ELSE IF Len(ws) = 1 THEN ws[1]
  ELSE ws[1] \o <<" ">> \o JoinWords(Tail(ws))

\* item.legal_description: the words, after a blank if the field starts with one
legalDescriptionOf(l) ==
  Only({IF l.blank THEN <<" ">> \o text ELSE text : text \in {JoinWords(l.words)}})

\* a workflow item that is not a filing
NoFiling == Filing("none", <<>>, <<>>, UNDEFINED)

\* no filing in the workflow
NoWorkflow ==
  /\ filing = NoFiling
  /\ pc = "none"
  /\ prepData = NoPrep
  /\ detected = UNDEFINED
  /\ likeData = NoLike
  /\ item = NoItem
  /\ out = NoOut
  /\ inflight = {}
  /\ calls = <<>>
  /\ responses = <<>>
  /\ trace = <<>>
  /\ sink = "none"
  /\ contacts = <<>>
  /\ first = NoRun

ExtractInit ==
  /\ legal \in {[blank |-> b, words |-> <<>>] : b \in BOOLEAN}
  /\ subdivision = UNDEFINED
  /\ NoWorkflow
  /\ ServerStarted

\* the legal description gets one more word
WriteWord ==
  /\ subdivision = UNDEFINED
  /\ Len(legal.words) < MaxWords
  /\ \E w \in LegalWords : legal' = [legal EXCEPT !.words = Append(@, w)]
  /\ UNCHANGED <<subdivision, filing, pc, prepData, detected, likeData, item,
                 out, inflight, calls, responses, trace, sink, contacts, first>>
  /\ UNCHANGED scraper

\* "Prep Query" computes subdivisionName from the legal description
ExtractSubdivision ==
  /\ subdivision = UNDEFINED
  /\ subdivision' = subdivisionNameOf(legalDescriptionOf(legal))
  /\ UNCHANGED <<legal, filing, pc, prepData, detected, likeData, item,
                 out, inflight, calls, responses, trace, sink, contacts, first>>
  /\ UNCHANGED scraper

ExtractNext ==
  \/ WriteWord
  \/ ExtractSubdivision

ExtractSpec == ExtractInit /\ [][ExtractNext]_vars

\* word is the marker m, in any letter case
IsMarker(w, m) == toUpperCase(w) = m

\* the words left when a leading 'Lot: <token>' is removed
AfterLot(ws) ==
  IF Len(ws) >= 2 /\ IsMarker(ws[1], <<"L","O","T",":">>) THEN Tail(Tail(ws)) ELSE ws

\* the words left when a leading 'Block: <token>' is removed
AfterBlock(ws) ==
  IF Len(ws) >= 2 /\ IsMarker(ws[1], <<"B","L","O","C","K",":">>) THEN Tail(Tail(ws)) ELSE ws

\* the words left when a leading 'TS:' is removed
AfterTS(ws) ==
  IF Len(ws) >= 1 /\ IsMarker(ws[1], <<"T","S",":">>) THEN Tail(ws) ELSE ws

\* the words left when a leading 'REPLAT OF' is removed
AfterReplatOf(ws) ==
  IF Len(ws) >= 2 /\ IsMarker(ws[1], <<"R","E","P","L","A","T">>) /\ IsMarker(ws[2], <<"O","F">>)
  THEN Tail(Tail(ws)) ELSE ws

\* the subdivision name the rule of the claim gives: nothing is at the start
\* of a description that begins with a blank
ExpectedSubdivision ==
  JoinWords(IF legal.blank THEN legal.words
            ELSE AfterReplatOf(AfterTS(AfterBlock(AfterLot(legal.words)))))

\* C18: the subdivision name is the legal description from which at most one
\* leading marker of each type is removed, once each in the order
\* 'Lot: <token>', 'Block: <token>', 'TS:', 'REPLAT OF', each only if it stands
\* at the start of the text left at that point, in any letter case; a marker
\* elsewhere, or one that follows a marker later in the order, stays; the
\* result is trimmed.
C18_LeadingMarkersRemovedOnceInOrder ==
  subdivision # UNDEFINED => subdivision = ExpectedSubdivision

C18_Witness ==
  /\ legal = [blank |-> FALSE,
              words |-> << <<"b","l","o","c","k",":">>, <<"9">>, <<"L","o","t",":">>, <<"9">> >>]
  /\ subdivision = <<"L","o","t",":"," ","9">>

\* ------------------------------------------------------------------------
\* The scraper server: POST /scrape, runScraper, the dedup table
\* ------------------------------------------------------------------------

\* the document numbers the county site lists
DocumentNumbers == {"D1", "D2"}

\* scrapeFilings returns at most this many filings
MaxBatch == 2

\* what scrapeFilings may return: filings of the site, a document number
\* possibly more than once
Batches == UNION {[1..n -> DocumentNumbers] : n \in 0..MaxBatch}

\* insertNewFilings on the first n filings of a batch: INSERT OR IGNORE on the
\* primary key document_number; a filing is pushed to newFilings when
\* result.changes > 0
RECURSIVE insertLoop(_, _, _)
insertLoop(filings, table, n) ==
  IF n = 0 THEN [table |-> table, newFilings |-> <<>>]
  ELSE Only({IF filings[n] \in before.table
             THEN before
             ELSE [table |-> before.table \cup {filings[n]},
                   newFilings |-> Append(before.newFilings, filings[n])] :
             before \in {insertLoop(filings, table, n - 1)}})

\* insertNewFilings(filings), in one transaction
insertNewFilings(filings, table) == insertLoop(filings, table, Len(filings))

\* runScraper is between its call and its return or rejection
Executing(run) == run.pc \in {"startRun", "scrapeFilings", "completeRun", "reportFailure"}

\* the result runScraper returns
ScrapeResult(success, newFilings) == <<[success |-> success, new_filings |-> newFilings]>>

\* `${label}: exceeded ${Math.round(ms / 1000)}s timeout` of withTimeout, with
\* label 'Scrape run' and the 240 s the comment in handleScrape names
TimeoutMessage == <<"S","c","r","a","p","e"," ","r","u","n",":"," ","e","x","c","e","e","d","e","d"," ","2","4","0","s"," ","t","i","m","e","o","u","t">>

\* the message getClient throws (its first sentence)
ConvexUrlMessage == <<"C","O","N","V","E","X","_","U","R","L"," ","i","s"," ","n","o","t"," ","s","e","t",".">>

\* the message of a Convex call the gateway gave up on
GatewayMessage == <<"u","p","s","t","r","e","a","m"," ","r","e","q","u","e","s","t"," ","t","i","m","e","o","u","t">>

\* the messages of the errors startRun, completeRun and
\* getConsecutiveFailures may throw
ConvexMessages == {ConvexUrlMessage, GatewayMessage}

\* the message of the error new Database(paths.database) throws
DatabaseMessage == <<"u","n","a","b","l","e"," ","t","o"," ","o","p","e","n"," ","d","a","t","a","b","a","s","e"," ","f","i","l","e">>

\* the messages of the errors runScraper may throw
ThrownMessages == ConvexMessages \cup {DatabaseMessage}

\* message.includes('timeout') ? 'overall_timeout' : 'unexpected_server_error'
errorStepOf(message) ==
  IF includes(message, <<"t","i","m","e","o","u","t">>)
  THEN "overall_timeout" ELSE "unexpected_server_error"

\* elapsed > lockTimeoutMs: the lock can be that old only when its holder is
\* past the scrape timeout and still closing the browser
StaleLock == \E q \in Requests : requests[q].pc = "closeBrowser"

\* handleScrape up to its first await: the stale-lock reset, the lock check
\* with the 409 answer, then await parseBody(req)
HandleScrape ==
  \E r \in Requests :
    /\ requests[r].pc = "none"
    /\ \E stale \in IF StaleLock THEN BOOLEAN ELSE {FALSE},
          busy \in {\E q \in Requests : Executing(runs[q])} :
         IF isRunning /\ ~stale
         THEN /\ requests' = [requests EXCEPT ![r] =
                   [NoRequest EXCEPT !.pc = "responded", !.status = 409,
                                     !.error_step = "concurrency_lock",
                                     !.busyOnArrival = busy]]
              /\ UNCHANGED isRunning
         ELSE /\ requests' = [requests EXCEPT ![r] =
                   [NoRequest EXCEPT !.pc = "parseBody", !.busyOnArrival = busy]]
              /\ isRunning' = FALSE
    /\ UNCHANGED <<db, runs, filingsTable>>
    /\ UNCHANGED <<filing, pc, prepData, detected, likeData, item, out, inflight,
                   calls, responses, trace, sink, contacts, first, legal, subdivision, crm>>

\* handleScrape after parseBody: isRunning = true, then runScraper(date) is
\* called and runs to its first await: initDatabase(), await startRun(); or
\* initDatabase() throws, outside the try block
ParseBodyDone ==
  \E r \in Requests :
    /\ requests[r].pc = "parseBody"
    /\ isRunning' = TRUE
    /\ requests' = [requests EXCEPT ![r].pc = "awaitRun"]
    /\ \E opened \in BOOLEAN, message \in {DatabaseMessage} :
         IF opened
         THEN /\ runs' = [runs EXCEPT ![r].pc = "startRun"]
              /\ db' = "open"
         ELSE /\ runs' = [runs EXCEPT ![r].pc = "rejected", ![r].error = message]
              /\ UNCHANGED db
    /\ UNCHANGED filingsTable
    /\ UNCHANGED <<filing, pc, prepData, detected, likeData, item, out, inflight,
                   calls, responses, trace, sink, contacts, first, legal, subdivision, crm>>

\* runScraper: startRun() resolves, or rejects outside the try block
StartRunDone ==
  \E r \in Requests :
    /\ runs[r].pc = "startRun"
    /\ \E resolved \in BOOLEAN, message \in ConvexMessages :
         runs' = [runs EXCEPT ![r].pc = IF resolved THEN "scrapeFilings" ELSE "rejected",
                              ![r].error = IF resolved THEN <<>> ELSE message]
    /\ UNCHANGED <<isRunning, db, requests, filingsTable>>
    /\ UNCHANGED <<filing, pc, prepData, detected, likeData, item, out, inflight,
                   calls, responses, trace, sink, contacts, first, legal, subdivision, crm>>

\* runScraper: scrapeFilings(date) resolves with a batch, which is empty or
\* goes through insertNewFilings, or rejects; insertNewFilings throws on a
\* closed connection
ScrapeFilingsDone ==
  \E r \in Requests :
    /\ runs[r].pc = "scrapeFilings"
    /\ \E resolved \in BOOLEAN, allFilings \in Batches :
         IF resolved /\ (allFilings = <<>> \/ db = "open")
         THEN \E inserted \in {insertNewFilings(allFilings, filingsTable)} :
                /\ filingsTable' = inserted.table
                /\ runs' = [runs EXCEPT ![r].pc = "completeRun",
                                        ![r].newFilings = inserted.newFilings]
         ELSE /\ runs' = [runs EXCEPT ![r].pc = "reportFailure"]
              /\ UNCHANGED filingsTable
    /\ UNCHANGED <<isRunning, db, requests>>
    /\ UNCHANGED <<filing, pc, prepData, detected, likeData, item, out, inflight,
                   calls, responses, trace, sink, contacts, first, legal, subdivision, crm>>

\* runScraper: completeRun(runId, 'success', ...) resolves and the result is
\* returned through finally { closeDatabase() }, or it rejects into catch
CompleteRunDone ==
  \E r \in Requests :
    /\ runs[r].pc = "completeRun"
    /\ \E resolved \in BOOLEAN :
         IF resolved
         THEN /\ runs' = [runs EXCEPT ![r].pc = "returned",
                                      ![r].result = ScrapeResult(TRUE, runs[r].newFilings)]
              /\ db' = "closed"
         ELSE /\ runs' = [runs EXCEPT ![r].pc = "reportFailure"]
              /\ UNCHANGED db
    /\ UNCHANGED <<isRunning, requests, filingsTable>>
    /\ UNCHANGED <<filing, pc, prepData, detected, likeData, item, out, inflight,
                   calls, responses, trace, sink, contacts, first, legal, subdivision, crm>>

\* runScraper, catch: completeRun(runId, 'failed', ...) and
\* getConsecutiveFailures() resolve and the failure result with
\* new_filings: [] is returned, or one of them rejects; finally closeDatabase()
ReportFailureDone ==
  \E r \in Requests :
    /\ runs[r].pc = "reportFailure"
    /\ \E resolved \in BOOLEAN, message \in ConvexMessages :
         runs' = [runs EXCEPT ![r].pc = IF resolved THEN "returned" ELSE "rejected",
                              ![r].result = IF resolved THEN ScrapeResult(FALSE, <<>>) ELSE <<>>,
                              ![r].error = IF resolved THEN <<>> ELSE message]
    /\ db' = "closed"
    /\ UNCHANGED <<isRunning, requests, filingsTable>>
    /\ UNCHANGED <<filing, pc, prepData, detected, likeData, item, out, inflight,
                   calls, responses, trace, sink, contacts, first, legal, subdivision, crm>>

\* withTimeout: the timer fires before runScraper settles; the promise of
\* runScraper is left running and handleScrape goes to catch
ScrapeTimeout ==
  \E r \in Requests :
    /\ requests[r].pc = "awaitRun"
    /\ Executing(runs[r])
    /\ requests' = [requests EXCEPT ![r].pc = "closeBrowser", ![r].error = TimeoutMessage]
    /\ UNCHANGED <<isRunning, db, runs, filingsTable>>
    /\ UNCHANGED <<filing, pc, prepData, detected, likeData, item, out, inflight,
                   calls, responses, trace, sink, contacts, first, legal, subdivision, crm>>

\* handleScrape: runScraper settled before the timeout. A result is answered
\* with 200 or 502 and finally releases the lock; a rejection goes to catch
RunSettled ==
  \E r \in Requests :
    /\ requests[r].pc = "awaitRun"
    /\ runs[r].pc \in {"returned", "rejected"}
    /\ IF runs[r].pc = "returned"
       THEN /\ requests' = [requests EXCEPT ![r].pc = "responded",
                              ![r].status = IF runs[r].result[1].success THEN 200 ELSE 502,
                              ![r].new_filings = runs[r].result[1].new_filings]
            /\ isRunning' = FALSE
       ELSE /\ requests' = [requests EXCEPT ![r].pc = "closeBrowser",
                                            ![r].error = runs[r].error]
            /\ UNCHANGED isRunning
    /\ UNCHANGED <<db, runs, filingsTable>>
    /\ UNCHANGED <<filing, pc, prepData, detected, likeData, item, out, inflight,
                   calls, responses, trace, sink, contacts, first, legal, subdivision, crm>>

\* handleScrape, catch: closeBrowser() is through, the answer is 500 with
\* new_filings: [], and finally releases the lock
BrowserClosed ==
  \E r \in Requests :
    /\ requests[r].pc = "closeBrowser"
    /\ requests' = [requests EXCEPT ![r].pc = "responded", ![r].status = 500,
                                    ![r].new_filings = <<>>,
                                    ![r].error_step = errorStepOf(requests[r].error)]
    /\ isRunning' = FALSE
    /\ UNCHANGED <<db, runs, filingsTable>>
    /\ UNCHANGED <<filing, pc, prepData, detected, likeData, item, out, inflight,
                   calls, responses, trace, sink, contacts, first, legal, subdivision, crm>>

ScrapeInit == ServerStarted /\ NoWorkflow /\ NoExtract

ScrapeNext ==
  \/ HandleScrape
  \/ ParseBodyDone
  \/ StartRunDone
  \/ ScrapeFilingsDone
  \/ CompleteRunDone
  \/ ReportFailureDone
  \/ ScrapeTimeout
  \/ RunSettled
  \/ BrowserClosed

ScrapeSpec == ScrapeInit /\ [][ScrapeNext]_vars

\* the requests whose runScraper is executing
RunsInProgress == {r \in Requests : Executing(runs[r])}

\* C19: for every interleaving of POST /scrape requests at most one run of
\* runScraper is in progress at any time; a request that arrives while a run
\* is in progress is answered 409 (concurrency_lock) and starts no run.
C19_AtMostOneScrapeRun ==
  /\ Cardinality(RunsInProgress) <= 1
  /\ \A r \in Requests :
       requests[r].busyOnArrival =>
         /\ requests[r].pc = "responded"
         /\ requests[r].status = 409
         /\ runs[r].pc = "none"

\* the document numbers of a sequence of filings
DocumentNumbersOf(filings) == {filings[i] : i \in 1..Len(filings)}

\* the runs of runScraper that have returned their result
Returned == {r \in Requests : runs[r].pc = "returned"}

\* the runs of runScraper that have returned or rejected
Settled == {r \in Requests : runs[r].pc \in {"returned", "rejected"}}

\* how often document number d occurs in the new_filings a run returned
RECURSIVE Occurrences(_, _, _)
Occurrences(d, filings, n) ==
  IF n = 0 THEN 0
  ELSE Occurrences(d, filings, n - 1) + (IF filings[n] = d THEN 1 ELSE 0)

\* how often document number d was returned as new over the runs 1..n
RECURSIVE TimesReturnedAsNew(_, _)
TimesReturnedAsNew(d, n) ==
  IF n = 0 THEN 0
  ELSE TimesReturnedAsNew(d, n - 1) +
       (IF n \in Returned
        THEN Occurrences(d, runs[n].result[1].new_filings,
                         Len(runs[n].result[1].new_filings))
        ELSE 0)

\* each document number is returned as new at most once over all runs, and
\* only a stored document number is returned as new
ReturnedAsNewAtMostOnce ==
  \A d \in DocumentNumbers :
    /\ TimesReturnedAsNew(d, MaxRequests) <= 1
    /\ TimesReturnedAsNew(d, MaxRequests) = 1 => d \in filingsTable

\* C20: across any sequence of scrape runs a filing is returned as new exactly
\* when its document_number was not already in the dedup store: each
\* document_number appears in new_filings at most once over all runs, and every
\* document_number a run stored is in the new_filings of that run once the run
\* has settled.
C20_NewExactlyWhenNotStored ==
  /\ ReturnedAsNewAtMostOnce
  /\ \A r \in Settled :
       \A d \in DocumentNumbersOf(runs[r].newFilings) :
         /\ r \in Returned
         /\ d \in DocumentNumbersOf(runs[r].result[1].new_filings)

\* ------------------------------------------------------------------------
\* The fuzzy query that is sent
\* ------------------------------------------------------------------------

\* a word of the primary name that goes into the OR-group of the tight query:
\* three characters or more, not a single-letter initial, not a particle, not
\* the surname
Meaningful(token, surname) ==
  /\ Len(token) >= 3
  /\ ~(Len(token) = 1 /\ token[1] \in Range(UpperCase))
  /\ toUpperCase(token) \notin PREFIXES_TO_STRIP
  /\ toUpperCase(token) # toUpperCase(surname)

\* the meaningful words of the primary name, in upper case, in order
MeaningfulTokens ==
  Only({[k \in 1..Len(kept) |-> toUpperCase(kept[k])] :
        kept \in {SelectSeq(PrimaryNameTokens,
                            LAMBDA t : Meaningful(t, likeData.retryingSurname))}})

\* the requests sent with a LIKE predicate
FuzzyCalls == {i \in 1..Len(calls) : calls[i].tier = "like"}

\* the LIKE request came back without candidates
FuzzyReturnedNothing ==
  /\ FuzzyAnswered
  /\ responses[2].kind = "features"
  /\ responses[2].features = 0

\* C21: the only fuzzy query sent to the registry is the tight one: the
\* surname substring and an OR-group over the other meaningful words of the
\* name, which is the surname predicate alone when there is no such word. It
\* is sent at most once, and the broad query "Prep LIKE Retry" also builds is
\* never sent in its place or after it, also when the tight query returned
\* no candidate.
C21_OnlyTightFuzzyQuery ==
  /\ Cardinality(FuzzyCalls) <= 1
  /\ \A i \in FuzzyCalls :
       /\ Retrying
       /\ \E others \in {MeaningfulTokens} :
            /\ calls[i].CO_NO = prepData.countyNumber
            /\ calls[i].name = InTemplate(likeData.retryingSurname)
            /\ calls[i].orParts = others
            /\ likeData.hasTightQuery = (others # <<>>)
            /\ others # <<>> => calls[i] # likeData.broadQueryUrl
  /\ FuzzyReturnedNothing => Len(calls) = 2

C21_Witness ==
  /\ pc = "done"
  /\ FuzzyReturnedNothing
  /\ likeData.hasTightQuery
  /\ calls[2] = likeData.queryUrl
  /\ calls[2] # likeData.broadQueryUrl
  /\ Len(calls[2].orParts) >= 1

\* ------------------------------------------------------------------------
\* The response to POST /scrape
\* ------------------------------------------------------------------------

\* the requests handleScrape has answered
Responded == {r \in Requests : requests[r].pc = "responded"}

\* the overall scrape timeout fired for request r
TimedOut(r) == requests[r].error = TimeoutMessage

\* runScraper threw for request r and handleScrape caught the error
Threw(r) ==
  /\ runs[r].pc = "rejected"
  /\ requests[r].error = runs[r].error
  /\ requests[r].error \in ThrownMessages

\* the status of every response given follows the outcome: 409 without a run
\* when the lock was held, 200 and 502 for a result returned in time with
\* success true and false, 500 when runScraper threw or the timeout fired
StatusFollowsOutcome ==
  \A r \in Responded :
    \/ /\ requests[r].status = 409
       /\ requests[r].error_step = "concurrency_lock"
       /\ runs[r].pc = "none"
    \/ /\ requests[r].status = 200
       /\ runs[r].pc = "returned"
       /\ runs[r].result[1].success
       /\ requests[r].new_filings = runs[r].result[1].new_filings
    \/ /\ requests[r].status = 502
       /\ runs[r].pc = "returned"
       /\ ~runs[r].result[1].success
    \/ /\ requests[r].status = 500
       /\ TimedOut(r) \/ Threw(r)
       /\ requests[r].error_step \in {"overall_timeout", "unexpected_server_error"}

\* C22: every POST /scrape request is answered according to the outcome: 409
\* if the lock is held, 200 if runScraper returns success = true, 502 if it
\* returns success = false, 500 if it throws or the overall scrape timeout
\* fires, with error_step 'overall_timeout' for the timeout and
\* 'unexpected_server_error' for every other error.
C22_StatusAndErrorStepFollowOutcome ==
  /\ StatusFollowsOutcome
  /\ \A r \in Responded :
       requests[r].status = 500 =>
         requests[r].error_step =
           IF TimedOut(r) THEN "overall_timeout" ELSE "unexpected_server_error"

\* ------------------------------------------------------------------------
\* The lock of POST /scrape: acquired, released, overridden
\* ------------------------------------------------------------------------

\* every await of handleScrape and runScraper settles and every timer fires
FairScrapeSpec == ScrapeSpec /\ WF_vars(ScrapeNext)

\* the requests that set isRunning = true and have not yet run their finally
LockHolders == {r \in Requests : requests[r].pc \in {"awaitRun", "closeBrowser"}}

\* request r passes the lock check in this step
PassesCheck(r) == requests[r].pc = "none" /\ requests'[r].pc = "parseBody"

\* request r sets isRunning = true in this step
Acquires(r) == requests[r].pc = "parseBody" /\ requests'[r].pc = "awaitRun"

\* request r runs its finally block in this step
Releases(r) == r \in LockHolders /\ requests'[r].pc = "responded"

\* a request that holds the lock comes to its finally block, which clears
\* isRunning, whether the run returned, threw or timed out
LockEventuallyReleased ==
  /\ \A r \in Requests : (r \in LockHolders) ~> (requests[r].pc = "responded")
  /\ [][\A r \in Requests : Releases(r) => ~isRunning']_vars

\* a request that finds isRunning set at its check passes only when the lock
\* is stale
CheckedLockOverriddenOnlyWhenStale ==
  [][\A r \in Requests : (PassesCheck(r) /\ isRunning) => StaleLock]_vars

\* C23: a lock that is held is overridden by a later request only after more
\* than lockTimeoutMs have elapsed since the run started: a request passes the
\* check of a held lock only when the lock is stale, and no request sets
\* isRunning while it is set for another request.
C23_HeldLockOverriddenOnlyWhenStale ==
  [][\A r \in Requests :
       /\ (PassesCheck(r) /\ isRunning) => StaleLock
       /\ Acquires(r) => ~isRunning]_vars

\* ------------------------------------------------------------------------
\* How runScraper ends
\* ------------------------------------------------------------------------

\* the runs that returned a failure result
ReturnedFailure == {r \in Returned : ~runs[r].result[1].success}

\* a run that returned a failure result reported no new filing
FailureResultIsEmpty ==
  \A r \in ReturnedFailure : runs[r].result[1].new_filings = <<>>

\* C24: runScraper never rejects: whichever step fails (database
\* initialisation, run-log start or completion, scraping, deduplication), the
\* run ends by returning a ScrapeResult, with success = false when a step
\* failed.
C24_RunScraperNeverRejects ==
  /\ \A r \in Requests : runs[r].pc # "rejected"
  /\ FailureResultIsEmpty

\* ------------------------------------------------------------------------
\* Both scorers on the same subdivision name and the same candidates
\* ------------------------------------------------------------------------

\* the candidate lists handed to both scorers: two or more parcels of the
\* pool, in the order of the pool or in the opposite order
CandidateLists ==
  UNION {UNION {{[i \in 1..k |-> ParcelPool[f[i]]],
                 [i \in 1..k |-> ParcelPool[f[k + 1 - i]]]} :
                f \in {g \in [1..k -> 1..Len(ParcelPool)] :
                         \A i, j \in 1..k : i < j => g[i] < g[j]}} :
         k \in 2..MaxFeatures}

\* the item of "Prep Query" reaches "Match Legal Description" with a list of
\* candidates, and "Prep LIKE Retry" has run for an answer of "Detect Surname"
GiveCandidates ==
  /\ pc = "Exact Match Query"
  /\ ~prepData.error
  /\ pc' = "Match Legal Description"
  /\ \E fs \in CandidateLists, text \in SurnameAnswers(prepData.primaryGrantee) :
       /\ detected' = text
       /\ likeData' = prepLikeRetry(prepData, text)
       /\ item' = [error |-> FALSE, hasFeatures |-> TRUE, features |-> fs]
  /\ UNCHANGED <<filing, prepData, out, inflight, calls, responses, trace,
                 sink, contacts>>
  /\ UNCHANGED outside

\* the output of "Match Legal Description" is kept and the same item goes to
\* "Match Legal LIKE"
ScoreAgain ==
  /\ pc = "Merge Matched"
  /\ ~first.ran
  /\ first' = [NoRun EXCEPT !.ran = TRUE, !.pc = pc, !.item = item, !.out = out]
  /\ out' = NoOut
  /\ pc' = "Match Legal LIKE"
  /\ UNCHANGED <<filing, prepData, detected, likeData, item, inflight, calls,
                 responses, trace, sink, contacts>>
  /\ UNCHANGED <<legal, subdivision>>
  /\ UNCHANGED scraper

ScorerNext ==
  \/ PrepQuery
  \/ GiveCandidates
  \/ MatchLegalDescription
  \/ ScoreAgain
  \/ MatchLegalLIKE

\* the filings both scorers run on: those of the workflow, one whose
\* subdivision name, 'CYPRESS 12', has a single keyword, and one whose
\* subdivision name has one unique and three common keywords
ScorerFilings ==
  Filings \cup {Filing("F9", name_MAHURIN, <<"L","o","t",":"," ","7"," ","V","I","S","T","A"," ","L","A","K","E","S"," ","H","E","I","G","H","T","S"," ","P","A","R","K">>, UNDEFINED),
               Filing("F8", name_OLIVEIRA, <<"L","o","t",":"," ","5"," ","C","Y","P","R","E","S","S"," ","1","2">>, UNDEFINED)}

ScorerInit ==
  /\ filing \in ScorerFilings
  /\ pc = "Prep Query"
  /\ prepData = NoPrep
  /\ detected = UNDEFINED
  /\ likeData = NoLike
  /\ item = NoItem
  /\ out = NoOut
  /\ inflight = {}
  /\ calls = <<>>
  /\ responses = <<>>
  /\ trace = <<>>
  /\ sink = "none"
  /\ contacts = <<>>
  /\ first = NoRun
  /\ NoExtract
  /\ ServerStarted

ScorerSpec == ScorerInit /\ [][ScorerNext]_vars

\* both scorers have run on the item
BothScored == first.ran /\ pc = "Merge Matched"

\* every candidate passes the owner filter of "Match Legal LIKE"
AllPassOwnerFilter ==
  validFeaturesOf(item.features, prepData.primaryGrantee, likeData.retryingSurname)
    = item.features

\* an output without its tag and without the count the owner filter adds
Untagged(o) == [o EXCEPT !.match_method = "", !.candidates_after_name_filter = NULL]

\* an output without its tag, its status and the count the owner filter adds
Unlabelled(o) == [Untagged(o) EXCEPT !.lookup_status = ""]

KeywordSet(subdivisionName) ==
  {w \in Range(split(toUpperCase(subdivisionName), WhiteSpace)) : IsKeyword(w)}

\* the scores of a candidate whose S_LEGAL is the legal description itself
ScoresOnOwnText(uniqueKeywords, commonKeywords) ==
  scoresOf(legalDescriptionOf(legal), uniqueKeywords, commonKeywords)

\* the keywords as the scorer holds them, two lists: no word is in both, their
\* words are the keywords of the name, and a candidate's scores are bounded by
\* the lengths of the lists
KeywordListsPartitioned ==
  subdivision # UNDEFINED =>
    \E all \in {allKeywordsOf(subdivision)} :
      \E unique \in {uniqueKeywordsOf(all)}, common \in {commonKeywordsOf(all)} :
        \E s \in {ScoresOnOwnText(unique, common)} :
          /\ Range(unique) \cap Range(common) = {}
          /\ Range(unique) \cup Range(common) = KeywordSet(subdivision)
          /\ Len(unique) + Len(common) = Len(all)
          /\ s.uniqueScore <= Len(unique)
          /\ s.totalScore - s.uniqueScore <= Len(common)
          /\ s.totalScore <= Len(all)

\* C26: the keywords of a subdivision name form a set partitioned into unique
\* and common keywords: the two are disjoint, together they are the distinct
\* tokens of the cleaned name of length >= 4 that are not numbers, a repeated
\* token is counted once in totalKeywords, and a candidate's uniqueScore,
\* commonScore and totalScore are at most the number of unique, common and all
\* distinct keywords.
C26_KeywordsFormPartitionedSet ==
  subdivision # UNDEFINED =>
    \E all \in {allKeywordsOf(subdivision)}, keywords \in {KeywordSet(subdivision)} :
      \E unique \in {uniqueKeywordsOf(all)}, common \in {commonKeywordsOf(all)} :
        \E s \in {ScoresOnOwnText(unique, common)} :
          /\ Range(unique) \cap Range(common) = {}
          /\ Range(unique) \cup Range(common) = keywords
          /\ Len(all) = Cardinality(keywords)
          /\ s.uniqueScore <= Cardinality(keywords \ STOP_WORDS)
          /\ s.totalScore - s.uniqueScore <= Cardinality(keywords \cap STOP_WORDS)
          /\ s.totalScore <= Cardinality(keywords)

\* ------------------------------------------------------------------------
\* crm.ts: pushFilingsToCrm
\* ------------------------------------------------------------------------

\* pushFilingsToCrm is called with at most this many filings
MaxCrmFilings == 3

\* the lists of filings pushFilingsToCrm may be called with, by document number
CrmFilingLists == UNION {[1..n -> DocumentNumbers] : n \in 0..MaxCrmFilings}

\* what pushFilingsToCrm leaves alone
besidesCrm ==
  <<filing, pc, prepData, detected, likeData, item, out, inflight, calls,
    responses, trace, sink, contacts, first, legal, subdivision,
    isRunning, db, requests, runs, filingsTable>>

\* pushToCrm(filing): the push resolves and updateCrmStatus(document_number,
\* 'pushed') runs, or it throws and catch runs updateCrmStatus(document_number,
\* 'failed'); the result has success accordingly
pushToCrm(crm_status, document_number, resolved) ==
  [success |-> resolved,
   crm_status |-> [crm_status EXCEPT ![document_number] =
                     IF resolved THEN "pushed" ELSE "failed"]]

\* the retry condition without the test: every filing is pushed twice
retryNeeded_Always(success) == TRUE

\* if (!result.success)
retryNeeded(success) == ~success

\* the call of pushFilingsToCrm(filings) on a table whose crm_status column is
\* still NULL
CrmInit ==
  /\ crm \in {[NoCrm EXCEPT !.pc = "called", !.filings = fs,
                            !.attempts = [k \in 1..Len(fs) |-> 0],
                            !.firstAttempt = [k \in 1..Len(fs) |-> "none"],
                            !.lastAttempt = [k \in 1..Len(fs) |-> "none"],
                            !.crm_status = [d \in DocumentNumbers |-> "null"]] :
              fs \in CrmFilingLists}
  /\ isRunning = FALSE
  /\ db = "open"
  /\ requests = [r \in Requests |-> NoRequest]
  /\ runs = [r \in Requests |-> NoRunScraper]
  /\ filingsTable = DocumentNumbers
  /\ NoWorkflow
  /\ NoExtract

\* for (const filing of filings): the loop is entered, or the list is empty
EnterLoop ==
  /\ crm.pc = "called"
  /\ crm' = [crm EXCEPT !.pc = IF crm.filings = <<>> THEN "returned" ELSE "pushToCrm",
                        !.i = 1]
  /\ UNCHANGED besidesCrm

\* let result = await pushToCrm(filing)
FirstPushToCrm ==
  /\ crm.pc = "pushToCrm"
  /\ \E resolved \in BOOLEAN :
       \E r \in {pushToCrm(crm.crm_status, crm.filings[crm.i], resolved)} :
         crm' = [crm EXCEPT !.success = r.success,
                            !.crm_status = r.crm_status,
                            !.attempts[crm.i] = @ + 1,
                            !.firstAttempt[crm.i] = r.crm_status[crm.filings[crm.i]],
                            !.lastAttempt[crm.i] = r.crm_status[crm.filings[crm.i]],
                            !.pc = IF retryNeeded(r.success) THEN "retryWait" ELSE "count"]
  /\ UNCHANGED besidesCrm

\* await new Promise(resolve => setTimeout(resolve, 5000))
RetryWaitDone ==
  /\ crm.pc = "retryWait"
  /\ crm' = [crm EXCEPT !.pc = "retry"]
  /\ UNCHANGED besidesCrm

\* result = await pushToCrm(filing), the retry
RetryPushToCrm ==
  /\ crm.pc = "retry"
  /\ \E resolved \in BOOLEAN :
       \E r \in {pushToCrm(crm.crm_status, crm.filings[crm.i], resolved)} :
         crm' = [crm EXCEPT !.success = r.success,
                            !.crm_status = r.crm_status,
                            !.attempts[crm.i] = @ + 1,
                            !.lastAttempt[crm.i] = r.crm_status[crm.filings[crm.i]],
                            !.pc = "count"]
  /\ UNCHANGED besidesCrm

\* if (result.success) pushed++; else failed++; then the delay between
\* pushes, or the end of the loop and return { pushed, failed }
CountResult ==
  /\ crm.pc = "count"
  /\ crm' = [crm EXCEPT !.pushed = IF crm.success THEN @ + 1 ELSE @,
                        !.failed = IF crm.success THEN @ ELSE @ + 1,
                        !.pc = IF crm.i < Len(crm.filings) THEN "delay" ELSE "returned"]
  /\ UNCHANGED besidesCrm

\* await new Promise(resolve => setTimeout(resolve, delayMs)), next filing
DelayDone ==
  /\ crm.pc = "delay"
  /\ crm' = [crm EXCEPT !.i = @ + 1, !.pc = "pushToCrm"]
  /\ UNCHANGED besidesCrm

CrmNext ==
  \/ EnterLoop
  \/ FirstPushToCrm
  \/ RetryWaitDone
  \/ RetryPushToCrm
  \/ CountResult
  \/ DelayDone

CrmSpec == CrmInit /\ [][CrmNext]_vars

\* the filings of the list that have been counted
Counted ==
  {k \in 1..Len(crm.filings) :
     k < crm.i \/ (k = crm.i /\ crm.pc \in {"delay", "returned"})}

\* the filings of the list pushToCrm has been called for
Attempted == {k \in 1..Len(crm.filings) : crm.attempts[k] >= 1}

\* the last attempted filing of the list with document number d
LastAttemptedOf(d) ==
  CHOOSE k \in Attempted :
    /\ crm.filings[k] = d
    /\ \A j \in Attempted : crm.filings[j] = d => j <= k

MaxTotalKeywords == 12

\* Math.min(minRequired, 2)
thresholdOf(totalKeywords) ==
  Only({IF minRequired < 2 THEN minRequired ELSE 2 :
        minRequired \in {minRequiredOf(totalKeywords)}})

\* a Match node has just produced its output
JustScored == pc = "Merge Matched" /\ Scored

\* C28: the acceptance threshold does not depend on the number of keywords:
\* min(max(2, ceil(0.4 * totalKeywords)), 2) = 2 for every totalKeywords, so a
\* Match node accepts its winner exactly when uniqueScore >= 1 and
\* totalScore >= 2, and a subdivision name with fewer than two keywords is
\* never matched by a Match node.
C28_ThresholdIsTwo ==
  /\ \A totalKeywords \in 0..MaxTotalKeywords : thresholdOf(totalKeywords) = 2
  /\ JustScored =>
       \E pairs \in {ScoredPairs} :
         /\ out.lookup_status = "matched" <=>
              \E w \in Maximal(pairs) : /\ pairs[w].uniqueScore >= 1
                                        /\ pairs[w].totalScore >= 2
         /\ TotalKeywords < 2 => out.lookup_status # "matched"

C28_Witness ==
  /\ JustScored
  /\ TotalKeywords >= 3
  /\ out.lookup_status = "matched"
  /\ out.match_score = <<2>>
  /\ out.unique_score = <<1>>

\* ------------------------------------------------------------------------
\* C29: a candidate that meets the acceptance criteria
\* ------------------------------------------------------------------------

\* the scored candidates that meet the acceptance criteria on their own
Acceptable(pairs) ==
  {i \in DOMAIN pairs : pairs[i].uniqueScore >= 1 /\ pairs[i].totalScore >= 2}

\* the outcome is 'matched' exactly when the winning candidate, the one with
\* the greatest totalScore and among those the greatest uniqueScore, meets
\* the criteria; whenever the outcome is 'matched' some candidate meets them
WinnerDecides ==
  JustScored =>
    \E pairs \in {ScoredPairs} :
      /\ out.lookup_status = "matched" <=> Maximal(pairs) \cap Acceptable(pairs) # {}
      /\ out.lookup_status = "matched" => Acceptable(pairs) # {}

\* C29: whenever a Match node has scored its candidates, the outcome is
\* 'matched' if some scored candidate has uniqueScore >= 1 and totalScore >= 2
\* of its own, and the failure outcome only if none has
C29_MatchedWhenAnyCandidateAcceptable ==
  JustScored =>
    \E pairs \in {ScoredPairs} :
      out.lookup_status = "matched" <=> Acceptable(pairs) # {}

\* ------------------------------------------------------------------------
\* C30: what a run stores and what its response hands over
\* ------------------------------------------------------------------------

\* the filings the run of request r wrote to the filings table
StoredBy(r) == DocumentNumbersOf(runs[r].newFilings)

\* a response with status 200 holds every filing its run stored
StoredFilingsReturnedOnSuccess ==
  \A r \in Responded :
    requests[r].status = 200 =>
      StoredBy(r) \subseteq DocumentNumbersOf(requests[r].new_filings)

\* C30: once a request is answered, every filing its run stored in the
\* filings table is in the new_filings of the response, whatever happened
\* after the insert (completeRun rejecting, the overall timeout firing)
C30_StoredFilingsAreInResponse ==
  \A r \in Responded :
    StoredBy(r) \subseteq DocumentNumbersOf(requests[r].new_filings)

====
